---- MODULE Spec2Model ----
(***************************************************************************)
(* The three notebooks of pytorch-playground: DecoderOnlyTrans.ipynb,      *)
(* Transformer.ipynb and EncoderOnlyTrans.ipynb.                           *)
(*                                                                         *)
(* Tensors are modelled by their shape and by the expression that computed *)
(* them (which operation, on which operands, with which parameters), so    *)
(* that the dataflow of a forward pass is a value that can be compared.    *)
(* The logits a forward pass yields depend on trained weights; they are    *)
(* drawn from a bounded set of integer matrices of the shape the forward   *)
(* pass produces, one matrix per parameter values and expression.  The     *)
(* generation loops are modelled step by step.                             *)
(***************************************************************************)
EXTENDS Integers, Sequences, FiniteSets, TLC

(* ------------------------------------------------------------------ *)
(* Bounds of the model                                                  *)
(* ------------------------------------------------------------------ *)

\* largest max_len a model is constructed with
MaxLen == 5

\* size of the vocabulary (ids 0 .. NumTokens-1)
NumTokens == 3

\* largest number of heads a MultiHeadAttention is constructed with
MaxHeads == 2

(* ------------------------------------------------------------------ *)
(* Program constants                                                    *)
(* ------------------------------------------------------------------ *)

\* d_model of every model the notebooks construct
d_model == 2

\* token_to_id_spa["<SOS>"]
SOS == 0

\* token_to_id["<EOS>"]: the last id of the vocabulary in both generative notebooks
EOS == NumTokens - 1

Tokens == 0 .. (NumTokens - 1)

Variants == {"EncoderOnly", "Transformer", "DecoderOnly"}

\* out_features of the classification head of EncoderOnlyTransformer
NumClasses == 2

\* token_to_id["<PAD>"] of EncoderOnlyTrans.ipynb: the last id of its vocabulary
PAD == NumTokens - 1

(* ------------------------------------------------------------------ *)
(* Tensors: shape and computing expression                              *)
(* ------------------------------------------------------------------ *)

\* an expression node: operation, parameter it reads, operands, integer arguments
Tm(op, name, args, ints) == [op |-> op, name |-> name, args |-> args, ints |-> ints]

\* a tensor of shape [rows, cols]
Tensor(rows, cols, term) ==
    [ok |-> TRUE, rows |-> rows, cols |-> cols, term |-> term, err |-> ""]

\* an exception raised in place of a tensor
Failure(err) ==
    [ok |-> FALSE, rows |-> 0, cols |-> 0, term |-> Tm("raise", err, <<>>, <<>>), err |-> err]

\* mask=None
NoMask == [present |-> FALSE, m |-> <<>>]

\* a boolean mask tensor
Mask(m) == [present |-> TRUE, m |-> m]

\* the integer arguments that stand for a mask in an expression: its rows, flattened
RECURSIVE FlattenMask(_)
FlattenMask(m) ==
    IF m = <<>> THEN <<>>
    ELSE [j \in 1 .. Len(m[1]) |-> IF m[1][j] THEN 1 ELSE 0] \o FlattenMask(Tail(m))

\* torch.ones(n, n)
Ones(n) == [i \in 1 .. n |-> [j \in 1 .. n |-> 1]]

\* x == 0, elementwise
EqZero(x) == [i \in 1 .. Len(x) |-> [j \in 1 .. Len(x[i]) |-> x[i][j] = 0]]

\* a tril that keeps every element
Tril_all(x) == x

\* a tril that also zeroes the main diagonal
TrilStrict(x) == [i \in 1 .. Len(x) |-> [j \in 1 .. Len(x[i]) |-> IF j < i THEN x[i][j] ELSE 0]]

\* torch.tril(x): keeps the elements on and below the main diagonal, zeroes the rest
Tril(x) == [i \in 1 .. Len(x) |-> [j \in 1 .. Len(x[i]) |-> IF j <= i THEN x[i][j] ELSE 0]]

\* mask = torch.tril(torch.ones(L, L)) == 0
CausalMask(L) == Mask(EqZero(Tril(Ones(L))))

\* an embedding lookup that accepts any id
Embedding_unchecked(name, num_tokens, token_ids) ==
    Tensor(Len(token_ids), d_model, Tm("embedding", name, <<>>, token_ids))

\* nn.Embedding(num_tokens, d_model)(token_ids): one row per token; an id outside
\* [0, num_tokens) raises IndexError
Embedding(name, num_tokens, token_ids) ==
    IF \E p \in 1 .. Len(token_ids) : token_ids[p] < 0 \/ token_ids[p] >= num_tokens
    THEN Failure("IndexError")
    ELSE Tensor(Len(token_ids), d_model, Tm("embedding", name, <<>>, token_ids))

\* whether two sizes broadcast together
Broadcasts(a, b) == a = b \/ a = 1 \/ b = 1

BroadcastSize(a, b) == IF a = 1 THEN b ELSE a

\* F applied to the value of a, which is computed once
Strict1(F(_), a) == CHOOSE r \in {F(x) : x \in {a}} : TRUE

\* F applied to the values of a and b, each computed once
Strict2(F(_, _), a, b) == CHOOSE r \in {F(x, y) : x \in {a}, y \in {b}} : TRUE

\* a + b with broadcasting
Add(a, b) ==
    Strict2(LAMBDA x, y :
                IF ~x.ok THEN x
                ELSE IF ~y.ok THEN y
                ELSE IF ~(Broadcasts(x.rows, y.rows) /\ Broadcasts(x.cols, y.cols))
                THEN Failure("RuntimeError")
                ELSE Tensor(BroadcastSize(x.rows, y.rows), BroadcastSize(x.cols, y.cols),
                            Tm("add", "", <<x.term, y.term>>, <<>>)),
            a, b)

Min(a, b) == IF a < b THEN a ELSE b

\* the whole table, whatever the length of the sequence
PositionTable_whole(max_len, n) ==
    Tensor(max_len, d_model, Tm("pe", "pe", <<>>, [p \in 1 .. max_len |-> p - 1]))

\* self.pe[:n, :] of a table of max_len rows: the rows 0 .. n-1 of the table, or all of
\* them when there are fewer (a slice end beyond the table is cut; it does not fail)
PositionTable(max_len, n) ==
    Tensor(Min(n, max_len), d_model, Tm("pe", "pe", <<>>, [p \in 1 .. Min(n, max_len) |-> p - 1]))

\* PositionEncoding.forward: word_embeddings + self.pe[:word_embeddings.size(0), :]
PositionEncoding_forward(max_len, word_embeddings) ==
    Strict1(LAMBDA x : IF ~x.ok THEN x ELSE Add(x, PositionTable(max_len, x.rows)),
            word_embeddings)

\* a linear layer that takes an input of any width
Linear_anyWidth(name, in_features, out_features, input) ==
    Strict1(LAMBDA x :
                IF ~x.ok THEN x
                ELSE Tensor(x.rows, out_features, Tm("linear", name, <<x.term>>, <<>>)),
            input)

\* nn.Linear(in_features, out_features)(input)
Linear(name, in_features, out_features, input) ==
    Strict1(LAMBDA x :
                IF ~x.ok THEN x
                ELSE IF x.cols # in_features THEN Failure("RuntimeError")
                ELSE Tensor(x.rows, out_features, Tm("linear", name, <<x.term>>, <<>>)),
            input)

\* input.transpose(dim0=0, dim1=1)
Transpose(input) ==
    Strict1(LAMBDA x :
                IF ~x.ok THEN x
                ELSE Tensor(x.cols, x.rows, Tm("transpose", "", <<x.term>>, <<>>)),
            input)

\* torch.matmul(a, b)
Matmul(a, b) ==
    Strict2(LAMBDA x, y :
                IF ~x.ok THEN x
                ELSE IF ~y.ok THEN y
                ELSE IF x.cols # y.rows THEN Failure("RuntimeError")
                ELSE Tensor(x.rows, y.cols, Tm("matmul", "", <<x.term, y.term>>, <<>>)),
            a, b)

\* input / torch.tensor(n ** 0.5)
DivSqrt(input, n) ==
    Strict2(LAMBDA x, y :
                IF ~x.ok THEN x
                ELSE Tensor(x.rows, x.cols, Tm("div_sqrt", "", <<x.term>>, <<y>>)),
            input, n)

\* the number of columns of a mask
MaskCols(m) == IF m = <<>> THEN 0 ELSE Len(m[1])

\* input.masked_fill(mask=mask, value=-1e9), out of place: input and mask are broadcast
\* against each other, and the result has the broadcast shape
MaskedFill(input, mask) ==
    Strict2(LAMBDA x, k :
                IF ~x.ok THEN x
                ELSE IF ~(/\ Broadcasts(x.rows, Len(k.m))
                          /\ Broadcasts(x.cols, MaskCols(k.m)))
                THEN Failure("RuntimeError")
                ELSE Tensor(BroadcastSize(x.rows, Len(k.m)),
                            BroadcastSize(x.cols, MaskCols(k.m)),
                            Tm("masked_fill", "-1e9", <<x.term>>, FlattenMask(k.m))),
            input, mask)

\* F.softmax(input, dim=1)
Softmax(input) ==
    Strict1(LAMBDA x :
                IF ~x.ok THEN x
                ELSE Tensor(x.rows, x.cols, Tm("softmax", "dim=1", <<x.term>>, <<>>)),
            input)

(* ------------------------------------------------------------------ *)
(* Attention.forward, one definition per notebook                       *)
(* ------------------------------------------------------------------ *)

\* q, k, sims and scaled_sims, as the three Attention classes compute them
ScaledSims(head, encodings_for_q, encodings_for_k) ==
    Strict2(LAMBDA q, k :
                IF ~q.ok THEN q
                ELSE IF ~k.ok THEN k
                ELSE DivSqrt(Matmul(q, Transpose(k)), k.cols),
            Linear(head \o ".W_q", d_model, d_model, encodings_for_q),
            Linear(head \o ".W_k", d_model, d_model, encodings_for_k))

\* attention_percents = softmax(scaled_sims); attention_scores = attention_percents . v
Attend(scaled_sims, v) == Matmul(Softmax(scaled_sims), v)

\* Transformer.ipynb: the mask is moved to the device and applied only when it is given
Attention_forward_Transformer(head, encodings_for_q, encodings_for_k, encodings_for_v, mask) ==
    Strict2(LAMBDA scaled_sims, v :
                IF ~scaled_sims.ok THEN scaled_sims
                ELSE IF ~v.ok THEN v
                ELSE IF mask.present
                THEN Attend(MaskedFill(scaled_sims, mask), v)
                ELSE Attend(scaled_sims, v),
            ScaledSims(head, encodings_for_q, encodings_for_k),
            Linear(head \o ".W_v", d_model, d_model, encodings_for_v))

\* EncoderOnlyTrans.ipynb: as in Transformer.ipynb
Attention_forward_EncoderOnly(head, encodings_for_q, encodings_for_k, encodings_for_v, mask) ==
    Strict2(LAMBDA scaled_sims, v :
                IF ~scaled_sims.ok THEN scaled_sims
                ELSE IF ~v.ok THEN v
                ELSE IF mask.present
                THEN Attend(MaskedFill(scaled_sims, mask), v)
                ELSE Attend(scaled_sims, v),
            ScaledSims(head, encodings_for_q, encodings_for_k),
            Linear(head \o ".W_v", d_model, d_model, encodings_for_v))

\* DecoderOnlyTrans.ipynb: mask.to(device) runs before the test "mask is not None",
\* so mask=None raises AttributeError ('NoneType' object has no attribute 'to')
Attention_forward_DecoderOnly(head, encodings_for_q, encodings_for_k, encodings_for_v, mask) ==
    Strict2(LAMBDA scaled_sims, v :
                IF ~scaled_sims.ok THEN scaled_sims
                ELSE IF ~v.ok THEN v
                ELSE IF ~mask.present THEN Failure("AttributeError")
                ELSE Attend(MaskedFill(scaled_sims, mask), v),
            ScaledSims(head, encodings_for_q, encodings_for_k),
            Linear(head \o ".W_v", d_model, d_model, encodings_for_v))

\* the Attention class of a notebook
Attention_forward(variant, head, encodings_for_q, encodings_for_k, encodings_for_v, mask) ==
    CASE variant = "Transformer" ->
            Attention_forward_Transformer(head, encodings_for_q, encodings_for_k,
                                          encodings_for_v, mask)
      [] variant = "EncoderOnly" ->
            Attention_forward_EncoderOnly(head, encodings_for_q, encodings_for_k,
                                          encodings_for_v, mask)
      [] variant = "DecoderOnly" ->
            Attention_forward_DecoderOnly(head, encodings_for_q, encodings_for_k,
                                          encodings_for_v, mask)

(* ------------------------------------------------------------------ *)
(* MultiHeadAttention of EncoderOnlyTrans.ipynb                         *)
(* ------------------------------------------------------------------ *)

RECURSIVE SumCols(_)
\* the widths of a list of tensors, added up
SumCols(xs) == IF xs = <<>> THEN 0 ELSE xs[1].cols + SumCols(Tail(xs))

\* torch.cat(tensors, dim=1): the tensors side by side, in the order of the list; they
\* must have the same number of rows, and the list must not be empty
Concat(tensors) ==
    Strict1(LAMBDA xs :
                IF Len(xs) = 0 THEN Failure("RuntimeError")
                ELSE IF \E h \in 1 .. Len(xs) : ~xs[h].ok
                THEN xs[CHOOSE h \in 1 .. Len(xs) :
                            ~xs[h].ok /\ \A g \in 1 .. (h - 1) : xs[g].ok]
                ELSE IF \E h \in 1 .. Len(xs) : xs[h].rows # xs[1].rows
                THEN Failure("RuntimeError")
                ELSE Tensor(xs[1].rows, SumCols(xs),
                            Tm("cat", "dim=1", [h \in 1 .. Len(xs) |-> xs[h].term], <<>>)),
            tensors)

\* a MultiHeadAttention whose heads all share the parameters of head 0
HeadName_shared(h) == "multi_head_attention.attention_heads.0"

\* the parameters of self.attention_heads[h] (h counted from 1 here, from 0 in the name)
HeadName(h) == "multi_head_attention.attention_heads." \o ToString(h - 1)

\* for h in range(self.head): attention_h = self.attention_heads[h]; attention_h(q, k, v, mask)
HeadOutputs(head, encodings_for_q, encodings_for_k, encodings_for_v, mask) ==
    [h \in 1 .. head |->
        Attention_forward_EncoderOnly(HeadName(h), encodings_for_q, encodings_for_k,
                                      encodings_for_v, mask)]

\* MultiHeadAttention.forward: its local variables
MultiHeadAttention_forward(head, encodings_for_q, encodings_for_k, encodings_for_v, mask) ==
    Strict1(LAMBDA outs :
        Strict1(LAMBDA agg_attention_values :
            [head |-> head,
             attention_values |-> outs,
             agg_attention_values |-> agg_attention_values,
             fc_layer_out |-> Linear("multi_head_attention.fc", head * d_model, d_model,
                                     agg_attention_values)],
            Concat(outs)),
        HeadOutputs(head, encodings_for_q, encodings_for_k, encodings_for_v, mask))

(* ------------------------------------------------------------------ *)
(* Forward passes                                                       *)
(* ------------------------------------------------------------------ *)

\* DecoderOnlyTransformer.forward(token_ids): its local variables.  Each local is
\* computed once, in the order of the code: position_encoded and mask, then
\* self_attention_values, then residual_connection_values, then fc_layer_out.
DecoderOnlyTransformer_forward(num_tokens, max_len, token_ids) ==
    Strict2(LAMBDA position_encoded, mask :
        Strict1(LAMBDA self_attention_values :
            Strict1(LAMBDA residual_connection_values :
                [token_ids |-> token_ids,
                 position_encoded |-> position_encoded,
                 mask |-> mask,
                 self_attention_values |-> self_attention_values,
                 residual_connection_values |-> residual_connection_values,
                 fc_layer_out |-> Linear("fc", d_model, num_tokens, residual_connection_values)],
                Add(position_encoded, self_attention_values)),
            Attention_forward_DecoderOnly("attention", position_encoded, position_encoded,
                                          position_encoded, mask)),
        PositionEncoding_forward(max_len, Embedding("we", num_tokens, token_ids)),
        CausalMask(Len(token_ids)))

\* The same forward pass row by row: what each position of the output is computed from --

\* self.we(token_ids): row p is the embedding of token p
EmbeddingRows(name, token_ids) ==
    [p \in 1 .. Len(token_ids) |-> Tm("embedding", name, <<>>, <<token_ids[p]>>)]

\* self.pe(word_embeddings): row p plus row p of the table (row 0 of a one-row table)
PositionEncodingRows(max_len, rows) ==
    [p \in 1 .. Len(rows) |->
        Tm("add", "", <<rows[p], Tm("pe", "pe", <<>>, <<IF max_len = 1 THEN 0 ELSE p - 1>>)>>,
           <<>>)]

\* nn.Linear: row p of the output is computed from row p of the input
LinearRows(name, rows) == [p \in 1 .. Len(rows) |-> Tm("linear", name, <<rows[p]>>, <<>>)]

\* the keys a mask row leaves visible, in ascending order
RECURSIVE VisibleKeys(_, _)
VisibleKeys(mask_row, c) ==
    IF c > Len(mask_row) THEN <<>>
    ELSE (IF mask_row[c] THEN <<>> ELSE <<c>>) \o VisibleKeys(mask_row, c + 1)

\* Attention.forward under a mask: sims[r][c] is computed from q[r] and k[c]; masked_fill
\* replaces it by -1e9 where the mask is True, softmax gives those keys the weight 0, and
\* row r of matmul(attention_percents, v) is computed from q[r] and from k[c], v[c] of
\* the keys c that are left
AttentionRows(head, rows_q, rows_k, rows_v, m) ==
    [r \in 1 .. Len(rows_q) |->
        Tm("attention", head,
           <<LinearRows(head \o ".W_q", rows_q)[r]>>
                \o [x \in 1 .. Len(VisibleKeys(m[r], 1)) |->
                        Tm("key_value", "",
                           <<LinearRows(head \o ".W_k", rows_k)[VisibleKeys(m[r], 1)[x]],
                             LinearRows(head \o ".W_v", rows_v)[VisibleKeys(m[r], 1)[x]]>>,
                           <<>>)],
           <<d_model>>)]

\* a + b of two tensors of the same shape
AddRows(a, b) == [p \in 1 .. Len(a) |-> Tm("add", "", <<a[p], b[p]>>, <<>>)]

\* DecoderOnlyTransformer.forward(token_ids) when it returns: the rows of fc_layer_out
DecoderOnlyTransformer_rows(max_len, token_ids) ==
    Strict1(LAMBDA position_encoded :
        LinearRows("fc",
            AddRows(position_encoded,
                    AttentionRows("attention", position_encoded, position_encoded,
                                  position_encoded, CausalMask(Len(token_ids)).m))),
        PositionEncodingRows(max_len, EmbeddingRows("we", token_ids)))

\* an encoder that hides the later positions from the earlier ones
EncoderSelfAttentionMask_causal(L) == CausalMask(L)

\* the mask Encoder.forward hands to its self-attention on L tokens: mask=None
EncoderSelfAttentionMask(L) == NoMask

\* the mask Decoder.forward hands to its encoder-decoder attention: mask=None
CrossAttentionMask == NoMask

\* the mask EncoderOnlyTransformer.forward hands to its multi-head attention: mask=None
EncoderOnlyMask == NoMask

\* Encoder.forward(token_ids) of Transformer.ipynb: position_encoded, then
\* position_encoded + self_attention_values
Encoder_forward(num_tokens, max_len, token_ids) ==
    Strict1(LAMBDA position_encoded :
        Add(position_encoded,
            Attention_forward_Transformer("encoder.attention", position_encoded,
                                          position_encoded, position_encoded,
                                          EncoderSelfAttentionMask(Len(token_ids)))),
        PositionEncoding_forward(max_len, Embedding("encoder.we", num_tokens, token_ids)))

\* the query Decoder.forward hands to its encoder-decoder attention
CrossAttentionQuery(position_encoded, residual_connection_values) == position_encoded

\* a second residual connection that skips the first one
SecondResidualBase_raw(position_encoded, residual_connection_values) == position_encoded

\* the value the second residual connection of Decoder.forward adds onto
SecondResidualBase(position_encoded, residual_connection_values) == residual_connection_values

\* Decoder.forward, from the first residual connection on: the encoder-decoder
\* attention and the second residual connection
Decoder_forward_cross(position_encoded, mask, self_attention_values, residual_1, k, v) ==
    Strict1(LAMBDA query :
        Strict1(LAMBDA encoder_decoder_attention_values :
            [position_encoded |-> position_encoded,
             mask |-> mask,
             self_attention_values |-> self_attention_values,
             self_attention_residual |-> residual_1,
             encoder_decoder_query |-> query,
             encoder_decoder_keys |-> k,
             encoder_decoder_values |-> v,
             encoder_decoder_mask |-> CrossAttentionMask,
             encoder_decoder_attention_values |-> encoder_decoder_attention_values,
             residual_connection_values |->
                Add(encoder_decoder_attention_values,
                    SecondResidualBase(position_encoded, residual_1))],
            Attention_forward_Transformer("decoder.encoder_decoder_attention", query,
                                          k, v, CrossAttentionMask)),
        CrossAttentionQuery(position_encoded, residual_1))

\* Decoder.forward(token_ids, embeddings_for_k, embeddings_for_v): its local variables.
\* Each local is computed once, in the order of the code: position_encoded and mask,
\* then self_attention_values, then the first residual connection, then the rest.
Decoder_forward(num_tokens, max_len, token_ids, embeddings_for_k, embeddings_for_v) ==
    Strict2(LAMBDA position_encoded, mask :
        Strict1(LAMBDA self_attention_values :
            Strict1(LAMBDA residual_1 :
                [token_ids |-> token_ids]
                    @@ Decoder_forward_cross(position_encoded, mask, self_attention_values,
                                             residual_1, embeddings_for_k, embeddings_for_v),
                Add(position_encoded, self_attention_values)),
            Attention_forward_Transformer("decoder.self_attention", position_encoded,
                                          position_encoded, position_encoded, mask)),
        PositionEncoding_forward(max_len, Embedding("decoder.we", num_tokens, token_ids)),
        CausalMask(Len(token_ids)))

\* torch.where(token_ids == id)[0]: the 0-based positions that hold id, in ascending order
RECURSIVE Where(_, _, _)
Where(token_ids, id, p) ==
    IF p > Len(token_ids) THEN <<>>
    ELSE (IF token_ids[p] = id THEN <<p - 1>> ELSE <<>>) \o Where(token_ids, id, p + 1)

\* a conversion that takes the first element of a tensor that has any
Item_first(xs) ==
    IF Len(xs) >= 1 THEN [ok |-> TRUE, value |-> xs[1]] ELSE [ok |-> FALSE, value |-> 0]

\* tensor.item(): the one element of a tensor of one element; RuntimeError otherwise
Item(xs) ==
    IF Len(xs) = 1 THEN [ok |-> TRUE, value |-> xs[1]] ELSE [ok |-> FALSE, value |-> 0]

\* a split that hands <SOS> to the encoder and leaves the decoder the tokens after it
TransformerSplit_after(token_ids, end_idx) ==
    [encoder |-> SubSeq(token_ids, 1, end_idx + 1),
     decoder |-> SubSeq(token_ids, end_idx + 2, Len(token_ids))]

\* token_ids[:end_idx] for the encoder, token_ids[end_idx:] for the decoder
TransformerSplit(token_ids, end_idx) ==
    [encoder |-> SubSeq(token_ids, 1, end_idx),
     decoder |-> SubSeq(token_ids, end_idx + 1, Len(token_ids))]

\* Transformer.forward from the split on: encoder, decoder, fully connected layer
Transformer_forward_split(num_tokens, max_len, token_ids, where, split) ==
    Strict1(LAMBDA contextualised_embeddings :
        IF ~contextualised_embeddings.ok
        THEN [token_ids |-> token_ids,
              where |-> where,
              encoder_input |-> split.encoder,
              decoder_input |-> split.decoder,
              contextualised_embeddings |-> contextualised_embeddings,
              residual_connection_values |-> Failure("None"),
              fc_layer_out |-> contextualised_embeddings]
        ELSE Strict1(LAMBDA decoder :
            [token_ids |-> token_ids,
             where |-> where,
             encoder_input |-> split.encoder,
             decoder_input |-> split.decoder,
             contextualised_embeddings |-> contextualised_embeddings,
             residual_connection_values |-> decoder.residual_connection_values,
             fc_layer_out |-> Linear("fc", d_model, num_tokens,
                                     decoder.residual_connection_values)],
            Decoder_forward(num_tokens, max_len, split.decoder, contextualised_embeddings,
                            contextualised_embeddings)),
        Encoder_forward(num_tokens, max_len, split.encoder))

\* Transformer.forward(token_ids): end_idx = torch.where(token_ids == <SOS>)[0].item(),
\* which raises RuntimeError unless exactly one position holds <SOS>
Transformer_forward(num_tokens, max_len, token_ids) ==
    Strict1(LAMBDA where :
        IF ~Item(where).ok
        THEN [token_ids |-> token_ids,
              where |-> where,
              encoder_input |-> <<>>,
              decoder_input |-> <<>>,
              contextualised_embeddings |-> Failure("None"),
              residual_connection_values |-> Failure("None"),
              fc_layer_out |-> Failure("RuntimeError")]
        ELSE Transformer_forward_split(num_tokens, max_len, token_ids, where,
                                       TransformerSplit(token_ids, Item(where).value)),
        Where(token_ids, SOS, 1))

\* nn.CrossEntropyLoss()(outputs, labels): one row of outputs per label, every label the
\* index of a column
CrossEntropyLoss(outputs, labels) ==
    IF ~outputs.ok THEN outputs
    ELSE IF outputs.rows # Len(labels) THEN Failure("ValueError")
    ELSE IF \E p \in 1 .. Len(labels) : labels[p] < 0 \/ labels[p] >= outputs.cols
    THEN Failure("IndexError")
    ELSE Tensor(1, 1, Tm("cross_entropy", "", <<outputs.term>>, labels))

\* input.flatten(): the rows one after the other in a 1-D tensor, held as a single row
FlattenTensor(input) ==
    Strict1(LAMBDA x :
                IF ~x.ok THEN x
                ELSE Tensor(1, x.rows * x.cols, Tm("flatten", "", <<x.term>>, <<>>)),
            input)

\* EncoderOnlyTransformer.forward, from the multi-head attention on
EncoderOnlyTransformer_forward_tail(max_len, token_ids, position_encoded, multi_head) ==
    Strict1(LAMBDA residual_connection_values :
        Strict1(LAMBDA cls_input :
            [token_ids |-> token_ids,
             position_encoded |-> position_encoded,
             mask |-> EncoderOnlyMask,
             multi_head |-> multi_head,
             self_attention_values |-> multi_head.fc_layer_out,
             residual_connection_values |-> residual_connection_values,
             cls_input |-> cls_input,
             fc_layer_out |-> Linear("cls", max_len * d_model, NumClasses, cls_input)],
            FlattenTensor(residual_connection_values)),
        Add(position_encoded, multi_head.fc_layer_out))

\* EncoderOnlyTransformer.forward(token_ids) of a model of `head` heads: its local variables
EncoderOnlyTransformer_forward(num_tokens, max_len, head, token_ids) ==
    Strict1(LAMBDA position_encoded :
        Strict1(LAMBDA multi_head :
            EncoderOnlyTransformer_forward_tail(max_len, token_ids, position_encoded,
                                                multi_head),
            MultiHeadAttention_forward(head, position_encoded, position_encoded,
                                       position_encoded, EncoderOnlyMask)),
        PositionEncoding_forward(max_len, Embedding("we", num_tokens, token_ids)))

\* x[-1:]: the last row, kept two-dimensional
LastRow(input) ==
    Strict1(LAMBDA x :
                IF ~x.ok THEN x
                ELSE Tensor(Min(x.rows, 1), x.cols, Tm("slice", "[-1:]", <<x.term>>, <<>>)),
            input)

(* ------------------------------------------------------------------ *)
(* Logits and argmax                                                    *)
(* ------------------------------------------------------------------ *)

\* a row of logits whose only maximum is at token t
OneHot(t) == [v \in 1 .. NumTokens |-> IF v = t + 1 THEN 1 ELSE 0]

\* the rows of logits the model draws from: one clear winner, or a tie
LogitRows ==
    {OneHot(t) : t \in Tokens}
        \cup {[v \in 1 .. NumTokens |-> 0]}
        \cup {[v \in 1 .. NumTokens |-> IF v >= NumTokens - 1 THEN 1 ELSE 0]}

\* the rows before the last one: every one predicts the first token, or every one <EOS>
FillRows == {OneHot(0), OneHot(EOS)}

\* the logits matrices of a given number of rows
LogitMatrices(rows) ==
    {[r \in 1 .. rows |-> IF r = rows THEN last ELSE fill] : last \in LogitRows, fill \in FillRows}

RECURSIVE Flatten(_)
\* the elements of a matrix in row-major order, as torch.argmax sees them without dim
Flatten(x) == IF x = <<>> THEN <<>> ELSE x[1] \o Flatten(Tail(x))

\* an argmax that returns the last maximal value
Argmax_last(xs) ==
    (CHOOSE p \in 1 .. Len(xs) :
        /\ \A r \in 1 .. Len(xs) : xs[r] <= xs[p]
        /\ \A r \in (p + 1) .. Len(xs) : xs[r] < xs[p]) - 1

\* an argmax that counts the positions from 1
Argmax_fromOne(xs) ==
    CHOOSE p \in 1 .. Len(xs) :
        /\ \A r \in 1 .. Len(xs) : xs[r] <= xs[p]
        /\ \A r \in 1 .. (p - 1) : xs[r] < xs[p]

\* torch.argmax of a 1-D sequence: the 0-based index of the first maximal value
Argmax(xs) ==
    (CHOOSE p \in 1 .. Len(xs) :
        /\ \A r \in 1 .. Len(xs) : xs[r] <= xs[p]
        /\ \A r \in 1 .. (p - 1) : xs[r] < xs[p]) - 1

(* ------------------------------------------------------------------ *)
(* State                                                                *)
(* ------------------------------------------------------------------ *)

VARIABLES
    run,                \* what is executed: a generation cell or a call of Attention.forward
    pc,                 \* "start", "loop", "break", "done" or "error"
    max_len,            \* the max_len the model is constructed with and the loops run to
    i,                  \* the next value of the loop variable i
    model_input,        \* DecoderOnlyTrans: the running sequence
    input_length,       \* DecoderOnlyTrans: the prompt length
    predictions,        \* DecoderOnlyTrans: the logits of the last forward pass
    predicted_id,       \* DecoderOnlyTrans: 1-D tensor holding the last prediction
    predicted_ids,      \* DecoderOnlyTrans: the collected predictions
    src_token_ids,      \* Transformer.generate: the source sentence
    contextualised_embeddings,  \* Transformer.generate: the encoder output
    target_token_ids,   \* Transformer.generate: the running target sequence
    fc_layer_out,       \* Transformer.generate: the logits of the last decoding step
    prediction_id,      \* Transformer.generate: 1-D tensor holding the last prediction
    forward,            \* the local variables of the last forward pass
    fc_input,           \* Transformer.generate: the tensor last handed to self.fc
    printed,            \* the tokens printed, in printing order
    generated,          \* history: every token predicted, in the order of prediction
    fed,                \* history: the token sequence of every decoder forward pass
    iterations,         \* history: loop iterations entered
    encoder_calls,      \* history: the token sequences the encoder was invoked on
    attention_call,     \* the arguments and result of the Attention.forward call
    constructed,        \* the arguments and result of the PositionEncoding construction
    rerun,              \* a cell or call that is executed twice: its first execution
    parameters,         \* the model: for every parameter tensor, how often it was written
    training,           \* training_step: the batch, the outputs of forward and the loss
    call,               \* a call of forward on its own: the input and the local variables
    trainer,            \* trainer.fit: where the loop over epochs and batches stands
    computed            \* forward as a function: the logits it gave, per parameter values
                        \* and expression, in a run that is executed twice

vars == <<run, pc, max_len, i, model_input, input_length, predictions, predicted_id,
          predicted_ids, src_token_ids, contextualised_embeddings, target_token_ids,
          fc_layer_out, prediction_id, forward, fc_input, printed, generated, fed,
          iterations, encoder_calls, attention_call, constructed, rerun, parameters,
          training, call, trainer, computed>>

decoderOnlyVars == <<model_input, input_length, predictions, predicted_id, predicted_ids>>

generateVars == <<src_token_ids, contextualised_embeddings, target_token_ids,
                  fc_layer_out, prediction_id, fc_input, encoder_calls>>

\* the three generation cells of DecoderOnlyTrans.ipynb
DecoderOnlyRuns == {"untrained", "trained_1", "trained_2"}

Runs ==
    DecoderOnlyRuns \cup {"generate", "attention", "encoder_only", "construct", "forward"}

\* no tensor yet
None == Failure("None")

\* the tensors the models hold: the embedding matrix, the positional table, the projections
\* of the attention, the linear layer fc and, in the encoder-only model, the head cls
ParameterNames == {"we", "pe", "W_q", "W_k", "W_v", "fc", "cls"}

\* what the optimizer updates: self.parameters(); pe is a buffer
Trainable == ParameterNames \ {"pe"}

\* the cells that run after trainer.fit only
TrainedRuns == {"trained_1", "trained_2", "generate"}

\* the runs of the notebook cells that call trainer.fit: the classification cells of
\* EncoderOnlyTrans.ipynb run before the training and after it
FitRuns == TrainedRuns \cup {"encoder_only"}

\* the notebook whose model a run works on
NotebookOf(r) ==
    IF r \in DecoderOnlyRuns THEN "DecoderOnlyTrans"
    ELSE IF r = "generate" THEN "Transformer"
    ELSE "EncoderOnlyTrans"

\* the tensors of the model of a notebook: only EncoderOnlyTransformer has self.cls
ModelParameters(notebook) ==
    IF notebook = "EncoderOnlyTrans" THEN ParameterNames ELSE ParameterNames \ {"cls"}

\* no Trainer yet
NoTrainer ==
    [status |-> "none", max_epochs |-> 0, current_epoch |-> 0, batch_idx |-> 0,
     global_step |-> 0]

\* an inference that ends with an optimizer step
AfterInference_stepped(p) == [n \in ParameterNames |-> IF n \in Trainable THEN p[n] + 1 ELSE p[n]]

\* the parameters after a forward pass or a generation call: no statement of forward or
\* generate assigns to a parameter or to the buffer, and no operation is in place
AfterInference(p) == p

\* the runs that are also executed twice, with the same input and the same weights
RepeatedRuns == {"trained_1", "generate"}

\* largest max_len of a model whose cell or call is executed twice
MaxRepeatedLen == 2

\* rerun of a run that is executed once
NotRepeated ==
    [pass |-> 0, input |-> 0, seen |-> <<>>, fed |-> <<>>, generated |-> <<>>, printed |-> <<>>]

\* rerun at the start of the first of two executions
FirstExecution == [NotRepeated EXCEPT !.pass = 1]

\* the inputs a run may start on (prompt lengths, source sentences): any, or in a second
\* execution the one of the first execution
SameInput(all) == IF rerun.pass = 2 THEN {rerun.input} ELSE all

\* a forward pass whose output also depends on a draw that differs between executions
PassValue_sampled(out) ==
    IF out.ok
    THEN [out EXCEPT !.term = Tm("dropout", "", <<out.term>>, <<rerun.pass>>)]
    ELSE out

\* what a forward pass returns: the value of the expression it computed, which reads the
\* input and the parameters and nothing else
PassValue(out) == out

\* the prompt of a generation cell, cut or extended to length P: the first prompt is
\* [what, is, statquest, <EOS>] (ids 0, 1, 2, ..., then <EOS>), the second one
\* [statquest, is, what, <EOS>] (the same ids in reverse, then <EOS>)
Prompt(cell, P) ==
    [p \in 1 .. P |->
        IF p = P THEN EOS
        ELSE IF cell = "trained_2" THEN (P - 1 - p) % (NumTokens - 1)
        ELSE (p - 1) % (NumTokens - 1)]

\* longest source sentence handed to generate
MaxSrc == 3

\* a source sentence of n tokens, none of them <SOS> or <EOS> while the vocabulary allows
Source(n) == [p \in 1 .. n |-> IF NumTokens > 2 THEN 1 + ((p - 1) % (NumTokens - 2)) ELSE 0]

\* a source sentence whose last id is none of the vocabulary
SourceUnknown(n) == [Source(n) EXCEPT ![n] = NumTokens]

\* the arguments of generate: sentences of the vocabulary, and sentences with an id the
\* embedding has no row for
Sources == {Source(n) : n \in 1 .. MaxSrc} \cup {SourceUnknown(n) : n \in 1 .. MaxSrc}

Init ==
    /\ run \in Runs
    /\ max_len \in 1 .. MaxLen
    /\ pc = "start"
    /\ i = 0
    /\ model_input = <<>>
    /\ input_length = 0
    /\ predictions = <<>>
    /\ predicted_id = <<>>
    /\ predicted_ids = <<>>
    /\ src_token_ids = <<>>
    /\ contextualised_embeddings = None
    /\ target_token_ids = <<>>
    /\ fc_layer_out = <<>>
    /\ prediction_id = <<>>
    /\ forward = <<>>
    /\ fc_input = None
    /\ printed = <<>>
    /\ generated = <<>>
    /\ fed = <<>>
    /\ iterations = 0
    /\ encoder_calls = <<>>
    /\ attention_call = <<>>
    /\ constructed = <<>>
    /\ rerun \in {NotRepeated} \cup (IF run \in RepeatedRuns /\ max_len <= MaxRepeatedLen
                                  THEN {FirstExecution}
                                  ELSE {})
    /\ parameters = [n \in ParameterNames |-> 0]
    /\ training = <<>>
    /\ call = <<>>
    /\ trainer = NoTrainer
    /\ computed = {}

(* ------------------------------------------------------------------ *)
(* The logits of a forward pass                                         *)
(* ------------------------------------------------------------------ *)

\* the sum of a sequence of numbers
RECURSIVE SumSeq(_)
SumSeq(xs) == Strict1(LAMBDA s : IF s = <<>> THEN 0 ELSE s[1] + SumSeq(Tail(s)), xs)

\* the logits forward has given before for the expression `out` with the parameter values
\* p: none or one matrix
Known(p, out) == {e.logits : e \in {x \in computed : x.parameters = p /\ x.out = out}}

\* the logits of a forward pass whose output is `out`: forward is a function of the
\* parameter values and of the expression it evaluates.  Which function is not fixed by
\* the code (the parameters are initialised at random and then trained), so the first
\* pass on an expression may give any matrix; a later pass on the same expression with
\* the same parameter values gives that matrix again
LogitsFor(out) ==
    Strict1(LAMBDA known : IF known = {} THEN LogitMatrices(out.rows) ELSE known,
            Known(parameters, out))

\* computed after a forward pass with output `out` gave `logits`.  A run that is executed
\* once evaluates no expression twice (every pass of a loop runs on a longer input), so
\* only a run that is executed twice keeps what it computed
Computed(out, logits) ==
    IF rerun.pass = 0
    THEN computed
    ELSE computed \cup {[parameters |-> parameters, out |-> out, logits |-> logits]}

\* rerun after a forward pass: a first execution keeps the logits of every pass, in order
Recorded(out, logits) ==
    IF rerun.pass = 1
    THEN [rerun EXCEPT !.seen = Append(@, [out |-> out, logits |-> logits])]
    ELSE rerun

\* the same cell or call is executed again, on the same input, with the same weights
Rerun ==
    /\ UNCHANGED <<training, call, trainer, computed>>
    /\ UNCHANGED parameters
    /\ pc = "done"
    /\ rerun.pass = 1
    /\ rerun' = [rerun EXCEPT !.pass = 2,
                               !.input = IF run = "generate" THEN src_token_ids
                                         ELSE input_length,
                               !.fed = fed,
                               !.generated = generated,
                               !.printed = printed]
    /\ pc' = "start"
    /\ i' = 0
    /\ model_input' = <<>>
    /\ input_length' = 0
    /\ predictions' = <<>>
    /\ predicted_id' = <<>>
    /\ predicted_ids' = <<>>
    /\ src_token_ids' = <<>>
    /\ contextualised_embeddings' = None
    /\ target_token_ids' = <<>>
    /\ fc_layer_out' = <<>>
    /\ prediction_id' = <<>>
    /\ forward' = <<>>
    /\ fc_input' = None
    /\ printed' = <<>>
    /\ generated' = <<>>
    /\ fed' = <<>>
    /\ iterations' = 0
    /\ encoder_calls' = <<>>
    /\ UNCHANGED <<run, max_len, attention_call, constructed>>

\* trainer.fit has returned: max_epochs reached
Fitted == trainer.status = "finished"

(* ------------------------------------------------------------------ *)
(* DecoderOnlyTrans.ipynb: the generation cells                         *)
(* ------------------------------------------------------------------ *)

\* the argmax of the first row
PredictedId_first(logits) == <<Argmax(logits[1])>>

\* predicted_id = torch.tensor([torch.argmax(predictions[-1,:])])
PredictedId(logits) == <<Argmax(logits[Len(logits)])>>

\* the untrained cell: predicted_ids = torch.cat((predicted_id, predicted_ids))
Collect_untrained(ids, id) == id \o ids

\* the trained cells: predicted_ids = torch.cat((predicted_ids, predicted_id))
Collect_trained(ids, id) == ids \o id

Collect(cell, ids, id) ==
    IF cell = "untrained" THEN Collect_untrained(ids, id) ELSE Collect_trained(ids, id)

\* one iteration too many
LoopContinues_inclusive(next_i, stop) == next_i <= stop

\* the values of i the loop runs through: range(input_length, max_len)
LoopContinues(next_i, stop) == next_i < stop

\* if (predicted_id == token_to_id["<EOS>"])
DecIsEOS(id) == id = <<EOS>>

\* statements after the loop that also run after an exception
AfterLoop_orRaised(p, continues) == p \in {"break", "error"} \/ (p = "loop" /\ ~continues)

\* the statements after a generation loop run once the loop is left, by break or at the
\* end of its range; an exception raised before or inside the loop skips them
AfterLoop(p, continues) == p = "break" \/ (p = "loop" /\ ~continues)

\* the cell that builds the prompt and makes the first prediction
DecPrompt ==
    /\ UNCHANGED <<training, call, trainer>>
    /\ parameters' = AfterInference(parameters)
    /\ pc = "start"
    /\ run \in DecoderOnlyRuns
    /\ run \in TrainedRuns => Fitted
    /\ \E P \in SameInput(1 .. (max_len + 1)) :
       \E prompt \in {Prompt(run, P)} :
       \E f \in {DecoderOnlyTransformer_forward(NumTokens, max_len, prompt)} :
             /\ model_input' = prompt
             /\ input_length' = P
             /\ forward' = f
             /\ IF f.fc_layer_out.ok
                THEN /\ \E logits \in LogitsFor(PassValue(f.fc_layer_out)) :
                          /\ predictions' = logits
                          /\ predicted_id' = PredictedId(logits)
                          /\ predicted_ids' = PredictedId(logits)
                          /\ generated' = generated \o PredictedId(logits)
                          /\ rerun' = Recorded(PassValue(f.fc_layer_out), logits)
                          /\ computed' = Computed(PassValue(f.fc_layer_out), logits)
                     /\ fed' = Append(fed, prompt)
                     /\ i' = P
                     /\ pc' = "loop"
                ELSE /\ pc' = "error"
                     /\ UNCHANGED <<predictions, predicted_id, predicted_ids, generated, fed, i,
                                    rerun, computed>>
    /\ UNCHANGED <<run, max_len, printed, iterations, attention_call, constructed>>
    /\ UNCHANGED generateVars

\* one iteration of "for i in range(input_length, max_len)"
DecIterate ==
    /\ UNCHANGED <<training, call, trainer>>
    /\ parameters' = AfterInference(parameters)
    /\ pc = "loop"
    /\ run \in DecoderOnlyRuns
    /\ LoopContinues(i, max_len)
    /\ iterations' = iterations + 1
    /\ IF DecIsEOS(predicted_id)
       THEN /\ pc' = "break"
            /\ UNCHANGED <<i, forward, generated, fed, rerun, computed>>
            /\ UNCHANGED decoderOnlyVars
       ELSE \E input \in {model_input \o predicted_id} :
            \E f \in {DecoderOnlyTransformer_forward(NumTokens, max_len, input)} :
                /\ model_input' = input
                /\ forward' = f
                /\ UNCHANGED input_length
                /\ IF f.fc_layer_out.ok
                   THEN /\ \E logits \in LogitsFor(PassValue(f.fc_layer_out)) :
                             /\ predictions' = logits
                             /\ predicted_id' = PredictedId(logits)
                             /\ predicted_ids' = Collect(run, predicted_ids, PredictedId(logits))
                             /\ generated' = generated \o PredictedId(logits)
                             /\ rerun' = Recorded(PassValue(f.fc_layer_out), logits)
                             /\ computed' = Computed(PassValue(f.fc_layer_out), logits)
                        /\ fed' = Append(fed, input)
                        /\ i' = i + 1
                        /\ pc' = "loop"
                   ELSE /\ pc' = "error"
                        /\ UNCHANGED <<predictions, predicted_id, predicted_ids, generated,
                                       fed, i, rerun, computed>>
    /\ UNCHANGED <<run, max_len, printed, attention_call, constructed>>
    /\ UNCHANGED generateVars

\* after the loop: print every id of predicted_ids
DecPrint ==
    /\ UNCHANGED <<training, call, trainer, computed>>
    /\ UNCHANGED parameters
    /\ run \in DecoderOnlyRuns
    /\ AfterLoop(pc, LoopContinues(i, max_len))
    /\ printed' = predicted_ids
    /\ pc' = "done"
    /\ UNCHANGED <<run, max_len, i, forward, generated, fed, iterations, attention_call, constructed, rerun>>
    /\ UNCHANGED decoderOnlyVars
    /\ UNCHANGED generateVars

(* ------------------------------------------------------------------ *)
(* Transformer.ipynb: Transformer.generate                              *)
(* ------------------------------------------------------------------ *)

\* prediction_id = torch.tensor([torch.argmax(fc_layer_out)])
PredictionId(logits) == <<Argmax(Flatten(logits))>>

\* a loop over range(self.max_len)
GenerateRange_full(n) == n

\* the number of iterations of "for i in range(self.max_len-1)"
GenerateRange(n) == n - 1

\* a test against the wrong id
GenIsEOS_wrong(id) == id = <<SOS>>

\* if (prediction_id == token_to_id_spa["<EOS>"])
GenIsEOS(id) == id = <<EOS>>

\* the rows of the decoder output that go through self.fc inside the loop
LoopFcInput(residual_connection_values) == LastRow(residual_connection_values)

\* a concatenation that appends the prediction twice
Extend_twice(ids, id) == ids \o id \o id

\* the sequence the next decoding step runs on: torch.cat((target_token_ids, prediction_id))
Extend(ids, id) == ids \o id

\* a decoder step that encodes the target sequence anew
DecoderContext_reencoded(ctx, target_ids) == Encoder_forward(NumTokens, max_len, target_ids)

\* the keys and values a decoder step of the loop gets: contextualised_embeddings, computed
\* before the loop
DecoderContext(ctx, target_ids) == ctx

\* generate, up to the loop: encode the source, decode <SOS>, make the first prediction
GenStart ==
    /\ UNCHANGED <<training, call, trainer>>
    /\ parameters' = AfterInference(parameters)
    /\ pc = "start"
    /\ run = "generate"
    /\ Fitted
    /\ \E src \in SameInput(Sources) :
       \E ctx \in {Encoder_forward(NumTokens, max_len, src)} :
       \E f \in {Decoder_forward(NumTokens, max_len, <<SOS>>, ctx, ctx)} :
       \E fc_in \in {f.residual_connection_values} :
       \E fc_out \in {PassValue(Linear("fc", d_model, NumTokens, fc_in))} :
             /\ src_token_ids' = src
             /\ contextualised_embeddings' = ctx
             /\ encoder_calls' = Append(encoder_calls, src)
             /\ IF fc_out.ok
                THEN /\ target_token_ids' = <<SOS>>
                     /\ forward' = f
                     /\ fc_input' = fc_in
                     /\ \E logits \in LogitsFor(fc_out) :
                          /\ fc_layer_out' = logits
                          /\ prediction_id' = PredictionId(logits)
                          /\ generated' = generated \o PredictionId(logits)
                          /\ rerun' = Recorded(fc_out, logits)
                          /\ computed' = Computed(fc_out, logits)
                     /\ fed' = Append(fed, <<SOS>>)
                     /\ i' = 0
                     /\ pc' = "loop"
                ELSE /\ pc' = "error"
                     /\ target_token_ids' = IF ctx.ok THEN <<SOS>> ELSE target_token_ids
                     /\ UNCHANGED <<forward, fc_input, fc_layer_out, prediction_id, generated,
                                    fed, i, rerun, computed>>
    /\ UNCHANGED <<run, max_len, printed, iterations, attention_call, constructed>>
    /\ UNCHANGED decoderOnlyVars

\* one iteration of "for i in range(self.max_len-1)"
GenIterate ==
    /\ UNCHANGED <<training, call, trainer>>
    /\ parameters' = AfterInference(parameters)
    /\ pc = "loop"
    /\ run = "generate"
    /\ i < GenerateRange(max_len)
    /\ iterations' = iterations + 1
    /\ target_token_ids' = Extend(target_token_ids, prediction_id)
    /\ IF GenIsEOS(prediction_id)
       THEN /\ pc' = "break"
            /\ UNCHANGED <<i, forward, fc_input, fc_layer_out, prediction_id, generated, fed,
                           rerun, computed>>
       ELSE \E ext \in {Extend(target_token_ids, prediction_id)} :
            \E ctx \in {DecoderContext(contextualised_embeddings, ext)} :
            \E f \in {Decoder_forward(NumTokens, max_len, ext, ctx, ctx)} :
            \E fc_in \in {LoopFcInput(f.residual_connection_values)} :
            \E fc_out \in {PassValue(Linear("fc", d_model, NumTokens, fc_in))} :
                IF fc_out.ok
                THEN /\ forward' = f
                     /\ fc_input' = fc_in
                     /\ \E logits \in LogitsFor(fc_out) :
                          /\ fc_layer_out' = logits
                          /\ prediction_id' = PredictionId(logits)
                          /\ generated' = generated \o PredictionId(logits)
                          /\ rerun' = Recorded(fc_out, logits)
                          /\ computed' = Computed(fc_out, logits)
                     /\ fed' = Append(fed, Extend(target_token_ids, prediction_id))
                     /\ i' = i + 1
                     /\ pc' = "loop"
                ELSE /\ pc' = "error"
                     /\ UNCHANGED <<i, forward, fc_input, fc_layer_out, prediction_id,
                                    generated, fed, rerun, computed>>
    /\ UNCHANGED <<run, max_len, printed, attention_call, constructed, src_token_ids,
                   contextualised_embeddings, encoder_calls>>
    /\ UNCHANGED decoderOnlyVars

\* after the loop: print every id of target_token_ids
GenPrint ==
    /\ UNCHANGED <<training, call, trainer, computed>>
    /\ UNCHANGED parameters
    /\ run = "generate"
    /\ AfterLoop(pc, i < GenerateRange(max_len))
    /\ printed' = target_token_ids
    /\ pc' = "done"
    /\ UNCHANGED <<run, max_len, i, forward, generated, fed, iterations, attention_call, constructed, rerun>>
    /\ UNCHANGED decoderOnlyVars
    /\ UNCHANGED generateVars

(* ------------------------------------------------------------------ *)
(* The attention percentages, as numbers                                *)
(* ------------------------------------------------------------------ *)

\* value=-1e9 of masked_fill
MaskValue == -1000000000

\* exponentials are held in fixed point, in units of 2^-ExpRange; a difference to the row
\* maximum below -ExpRange underflows to 0
ExpRange == 4

RECURSIVE Pow2(_)
Pow2(n) == IF n <= 0 THEN 1 ELSE 2 * Pow2(n - 1)

\* exp(d) for d <= 0, in fixed point: 1 at d = 0, positive and increasing down to -ExpRange,
\* 0 below (float32 underflow, as for exp(-1e9))
Exp(d) == IF d < -ExpRange THEN 0 ELSE Pow2(ExpRange + d)

\* the largest element of a row
RowMax(xs) == CHOOSE m \in {xs[j] : j \in 1 .. Len(xs)} : \A j \in 1 .. Len(xs) : xs[j] <= m

\* the denominator of softmax: the sum of the exponentials of the row
Normaliser(es) == SumSeq(es)

\* F.softmax of one row: exponentials of the differences to the row maximum (num), and
\* what they are divided by (den); the percentage of key j is num[j] / den
SoftmaxRow(xs) ==
    Strict1(LAMBDA es : [num |-> es, den |-> Normaliser(es)],
            [j \in 1 .. Len(xs) |-> Exp(xs[j] - RowMax(xs))])

\* a masked_fill that fills where the mask is False
MaskedFillValues_inverted(x, m) ==
    [r \in 1 .. BroadcastSize(Len(x), Len(m)) |->
        [c \in 1 .. BroadcastSize(Len(x[1]), Len(m[1])) |->
            IF m[IF Len(m) = 1 THEN 1 ELSE r][IF Len(m[1]) = 1 THEN 1 ELSE c]
            THEN x[IF Len(x) = 1 THEN 1 ELSE r][IF Len(x[1]) = 1 THEN 1 ELSE c]
            ELSE MaskValue]]

\* scaled_sims.masked_fill(mask=mask, value=-1e9) on numbers: the scores and the mask
\* are broadcast against each other
MaskedFillValues(x, m) ==
    [r \in 1 .. BroadcastSize(Len(x), Len(m)) |->
        [c \in 1 .. BroadcastSize(Len(x[1]), Len(m[1])) |->
            IF m[IF Len(m) = 1 THEN 1 ELSE r][IF Len(m[1]) = 1 THEN 1 ELSE c]
            THEN MaskValue
            ELSE x[IF Len(x) = 1 THEN 1 ELSE r][IF Len(x[1]) = 1 THEN 1 ELSE c]]]

\* attention_percents of a call that returns: the mask is applied when it is given, then
\* softmax over the key axis (dim=1)
AttentionPercents(scaled_sims, mask) ==
    Strict1(LAMBDA x : [r \in 1 .. Len(x) |-> SoftmaxRow(x[r])],
            IF mask.present THEN MaskedFillValues(scaled_sims, mask.m) ELSE scaled_sims)

\* the scaled similarities of Lq queries and Lk keys: they depend on the weights and on
\* the inputs; all equal, growing or falling along the keys, or far apart
ScoreMatrices(Lq, Lk) ==
    {[r \in 1 .. Lq |-> [c \in 1 .. Lk |-> 0]],
     [r \in 1 .. Lq |-> [c \in 1 .. Lk |-> c - r]],
     [r \in 1 .. Lq |-> [c \in 1 .. Lk |-> r - 2 * c]],
     [r \in 1 .. Lq |-> [c \in 1 .. Lk |-> (ExpRange + 1) * ((r + c) % 3)]]}

\* the value vectors v = W_v(encodings_for_v) of Lk keys, as numbers: one row per key, no
\* two rows alike
ValueMatrices(Lk) ==
    {[j \in 1 .. Lk |-> [c \in 1 .. d_model |-> 2 * j + c]],
     [j \in 1 .. Lk |-> [c \in 1 .. d_model |-> c - j]]}

\* torch.matmul(attention_percents, v) on numbers: row r holds, for every column c, the sum
\* over the keys j of num[j] * v[j][c] (num), to be divided by the row's den; without a
\* key the sum is empty and the row is zero
AttentionScores(attention_percents, v) ==
    [r \in 1 .. Len(attention_percents) |->
        [num |-> [c \in 1 .. d_model |->
                    SumSeq([j \in 1 .. Len(v) |-> attention_percents[r].num[j] * v[j][c]])],
         den |-> IF Len(v) = 0 THEN 1 ELSE attention_percents[r].den]]

\* a mask that hides from every query all keys but the one at its own position
OwnPositionMask(L) == Mask([r \in 1 .. L |-> [c \in 1 .. L |-> c # r]])

\* the masks a caller hands to Attention.forward: none, the causal one, or one that leaves
\* every query its own key only, of one row per query or of one row per key
MaskArguments(L) == {NoMask, CausalMask(L), OwnPositionMask(L)}

(* ------------------------------------------------------------------ *)
(* A call of Attention.forward on its own                               *)
(* ------------------------------------------------------------------ *)

\* an input of n rows of width d_model
Encodings(name, n) == Tensor(n, d_model, Tm("input", name, <<>>, <<n>>))

\* Attention(d_model)(q, k, v, mask) of one of the notebooks: self-attention (one input
\* for the three arguments) or attention over another sequence, with or without a mask
AttentionCall ==
    /\ UNCHANGED <<training, call, trainer, computed>>
    /\ parameters' = AfterInference(parameters)
    /\ pc = "start"
    /\ run = "attention"
    /\ \E variant \in Variants, Lq \in 1 .. max_len, Lk \in 0 .. max_len :
       \E q \in {Encodings("x", Lq)} :
       \E k \in {IF Lk = Lq THEN q ELSE Encodings("y", Lk)} :
       \E mask \in MaskArguments(Lq) \union MaskArguments(Lk) :
       \E result \in {Attention_forward(variant, "attention", q, k, k, mask)} :
       \E scaled_sims \in ScoreMatrices(Lq, Lk) :
       \E values \in ValueMatrices(Lk) :
       \E percents \in {IF result.ok THEN AttentionPercents(scaled_sims, mask) ELSE <<>>} :
             attention_call' =
                [variant |-> variant, q |-> q, k |-> k, v |-> k, mask |-> mask,
                 result |-> result,
                 scaled_sims |-> IF result.ok THEN scaled_sims ELSE <<>>,
                 attention_percents |-> percents,
                 values |-> IF result.ok THEN values ELSE <<>>,
                 attention_scores |->
                    IF result.ok THEN AttentionScores(percents, values) ELSE <<>>]
    /\ pc' = "done"
    /\ UNCHANGED <<run, max_len, i, forward, printed, generated, fed, iterations, constructed, rerun>>
    /\ UNCHANGED decoderOnlyVars
    /\ UNCHANGED generateVars

(* ------------------------------------------------------------------ *)
(* EncoderOnlyTrans.ipynb: the classification cells                     *)
(* ------------------------------------------------------------------ *)

\* a sentence of L ids: words first, then <PAD> up to L
Sentence(L) ==
    [p \in 1 .. L |-> IF 2 * p > L + 1 THEN PAD ELSE (p - 1) % (NumTokens - 1)]

\* the logits of the two classes
ClassLogits == [1 .. NumClasses -> 0 .. 1]

\* predictions = model(model_input); predicted_label = torch.argmax(predictions);
\* print(predicted_label), for a model of `head` heads and a sentence of L ids
EncClassify ==
    /\ UNCHANGED <<training, call, trainer, computed>>
    /\ parameters' = AfterInference(parameters)
    /\ pc = "start"
    /\ run = "encoder_only"
    /\ trainer.status \in {"none", "finished"}
    /\ \E L \in 1 .. (max_len + 1), head \in 1 .. MaxHeads :
       \E tokens \in {Sentence(L)} :
       \E f \in {EncoderOnlyTransformer_forward(NumTokens, max_len, head, tokens)} :
             /\ model_input' = tokens
             /\ input_length' = L
             /\ forward' = f
             /\ IF f.fc_layer_out.ok
                THEN /\ \E logits \in ClassLogits :
                          /\ predictions' = <<logits>>
                          /\ printed' = <<Argmax(logits)>>
                     /\ pc' = "done"
                ELSE /\ pc' = "error"
                     /\ UNCHANGED <<predictions, printed>>
    /\ UNCHANGED <<run, max_len, i, predicted_id, predicted_ids, generated, fed, iterations,
                   attention_call, constructed, rerun>>
    /\ UNCHANGED generateVars

(* ------------------------------------------------------------------ *)
(* PositionEncoding.__init__                                            *)
(* ------------------------------------------------------------------ *)

\* largest d_model a PositionEncoding is constructed with
MaxDModel == 4

\* the number of columns start, start+2, ... of a table of dm columns: pe[:, start::2]
StridedCols(start, dm) == Cardinality({c \in start .. (dm - 1) : (c - start) % 2 = 0})

\* the length of torch.arange(start=0, end=dm, step=2), the size of div_term
ArangeLen(dm) == Cardinality({c \in 0 .. (dm - 1) : c % 2 = 0})

\* dst[...] = src: src must have the shape of dst or broadcast to it (a size of 1
\* expands to any size, 0 included)
CanAssign(dst_rows, dst_cols, src_rows, src_cols) ==
    /\ src_rows = dst_rows \/ src_rows = 1
    /\ src_cols = dst_cols \/ src_cols = 1

\* PositionEncoding(d_model=dm, max_len=n).__init__: the buffer pe, or the error of the
\* first assignment that does not fit.  position / div_term is [n, 1] / [ArangeLen(dm)],
\* of shape [n, ArangeLen(dm)]
PositionEncoding_init(dm, n) ==
    IF ~CanAssign(n, StridedCols(0, dm), n, ArangeLen(dm)) THEN Failure("RuntimeError")
    ELSE IF ~CanAssign(n, StridedCols(1, dm), n, ArangeLen(dm)) THEN Failure("RuntimeError")
    ELSE Tensor(n, dm, Tm("pe", "pe", <<>>, [p \in 1 .. n |-> p - 1]))

\* PositionEncoding(d_model=dm, max_len=max_len)
Construct ==
    /\ UNCHANGED <<training, call, trainer, computed>>
    /\ UNCHANGED parameters
    /\ pc = "start"
    /\ run = "construct"
    /\ \E dm \in 1 .. MaxDModel :
       \E pe \in {PositionEncoding_init(dm, max_len)} :
             /\ constructed' = [d_model |-> dm, max_len |-> max_len, pe |-> pe]
             /\ pc' = IF pe.ok THEN "done" ELSE "error"
    /\ UNCHANGED <<run, max_len, i, forward, printed, generated, fed, iterations,
                   attention_call, rerun>>
    /\ UNCHANGED decoderOnlyVars
    /\ UNCHANGED generateVars

(* ------------------------------------------------------------------ *)
(* Training: the datasets and training_step                             *)
(* ------------------------------------------------------------------ *)

\* DecoderOnlyTrans.ipynb: the vocabulary
token_to_id ==
    ("what" :> 0) @@ ("is" :> 1) @@ ("statquest" :> 2) @@ ("awesome" :> 3) @@ ("<EOS>" :> 4)

\* Transformer.ipynb: the vocabulary of the encoder
token_to_id_eng ==
    ("<SOS>" :> 0) @@ ("let's" :> 1) @@ ("go" :> 2) @@ ("love" :> 3) @@ ("you" :> 4)
        @@ ("<EOS>" :> 5)

\* Transformer.ipynb: the vocabulary of the decoder
token_to_id_spa ==
    ("<SOS>" :> 0) @@ ("ir" :> 1) @@ ("vamos" :> 2) @@ ("te" :> 3) @@ ("amo" :> 4)
        @@ ("<EOS>" :> 5)

\* DecoderOnlyTrans.ipynb: inputs and labels of the training dataset
inputs_DecoderOnly ==
    << <<token_to_id["what"], token_to_id["is"], token_to_id["statquest"],
         token_to_id["<EOS>"], token_to_id["awesome"]>>,
       <<token_to_id["statquest"], token_to_id["is"], token_to_id["what"],
         token_to_id["<EOS>"], token_to_id["awesome"]>> >>

labels_DecoderOnly ==
    << <<token_to_id["is"], token_to_id["statquest"], token_to_id["<EOS>"],
         token_to_id["awesome"], token_to_id["<EOS>"]>>,
       <<token_to_id["is"], token_to_id["what"], token_to_id["<EOS>"],
         token_to_id["awesome"], token_to_id["<EOS>"]>> >>

\* Transformer.ipynb: inputs and labels of the training dataset
inputs_Transformer ==
    << <<token_to_id_eng["let's"], token_to_id_eng["go"], token_to_id_eng["<EOS>"],
         token_to_id_spa["<SOS>"], token_to_id_spa["ir"], token_to_id_spa["vamos"]>>,
       <<token_to_id_eng["love"], token_to_id_eng["you"], token_to_id_eng["<EOS>"],
         token_to_id_spa["<SOS>"], token_to_id_spa["te"], token_to_id_spa["amo"]>> >>

labels_Transformer ==
    << <<token_to_id_spa["ir"], token_to_id_spa["vamos"], token_to_id_spa["<EOS>"]>>,
       <<token_to_id_spa["te"], token_to_id_spa["amo"], token_to_id_spa["<EOS>"]>> >>

\* EncoderOnlyTrans.ipynb: the vocabulary
token_to_id_EncoderOnly ==
    ("Edison" :> 0) @@ ("is" :> 1) @@ ("handsome" :> 2) @@ ("but" :> 3) @@ ("very" :> 4)
        @@ ("lazy" :> 5) @@ ("Danica" :> 6) @@ ("loves" :> 7) @@ ("doesn't" :> 8)
        @@ ("work" :> 9) @@ ("Bekzod" :> 10) @@ ("<PAD>" :> 11)

\* EncoderOnlyTrans.ipynb: inputs and labels of the training dataset (0 negative,
\* 1 positive)
inputs_EncoderOnly ==
    [b \in 1 .. 7 |->
        [p \in 1 .. 6 |->
            token_to_id_EncoderOnly[
                << <<"Edison", "is", "handsome", "<PAD>", "<PAD>", "<PAD>">>,
                   <<"Bekzod", "very", "lazy", "doesn't", "work", "<PAD>">>,
                   <<"Edison", "is", "lazy", "but", "handsome", "<PAD>">>,
                   <<"Edison", "loves", "work", "but", "lazy", "<PAD>">>,
                   <<"Edison", "is", "lazy", "<PAD>", "<PAD>", "<PAD>">>,
                   <<"but", "Bekzod", "doesn't", "work", "<PAD>", "<PAD>">>,
                   <<"Danica", "doesn't", "loves", "<PAD>", "<PAD>", "<PAD>">> >>[b][p]]]]

labels_EncoderOnly == <<1, 0, 1, 0, 0, 0, 0>>

\* the notebooks that train a generative model
GenerativeNotebooks == {"DecoderOnlyTrans", "Transformer"}

\* dataset = TensorDataset(inputs, labels); dataloader = DataLoader(dataset): batches of
\* one example, in the order of the dataset.  A label of EncoderOnlyTrans.ipynb is a
\* single class, held as a sequence of one
Dataset(notebook) ==
    IF notebook = "DecoderOnlyTrans"
    THEN [inputs |-> inputs_DecoderOnly, labels |-> labels_DecoderOnly]
    ELSE IF notebook = "Transformer"
    THEN [inputs |-> inputs_Transformer, labels |-> labels_Transformer]
    ELSE [inputs |-> inputs_EncoderOnly,
          labels |-> [b \in 1 .. Len(labels_EncoderOnly) |-> <<labels_EncoderOnly[b]>>]]

\* the id of <EOS> in the vocabulary the labels of a notebook come from
LabelEOS(notebook) ==
    IF notebook = "DecoderOnlyTrans" THEN token_to_id["<EOS>"] ELSE token_to_id_spa["<EOS>"]

\* the model that is trained: DecoderOnlyTransformer(num_tokens=len(token_to_id), d_model=2,
\* max_len=6), Transformer(num_tokens=len(token_to_id_eng), d_model=2, max_len=5) or
\* EncoderOnlyTransformer(num_tokens=len(token_to_id), d_model=2, head=2, max_len=6)
TrainedModel(notebook) ==
    IF notebook = "DecoderOnlyTrans"
    THEN [num_tokens |-> Cardinality(DOMAIN token_to_id), max_len |-> 6, head |-> 1]
    ELSE IF notebook = "Transformer"
    THEN [num_tokens |-> Cardinality(DOMAIN token_to_id_eng), max_len |-> 5, head |-> 1]
    ELSE [num_tokens |-> Cardinality(DOMAIN token_to_id_EncoderOnly), max_len |-> 6,
          head |-> 2]

\* outputs = self.forward(input_tokens[0]): the outputs and the tokens the decoder ran on
TrainingForward(notebook, input_tokens) ==
    IF notebook = "DecoderOnlyTrans"
    THEN Strict1(LAMBDA f : [outputs |-> f.fc_layer_out, decoder_input |-> f.token_ids],
                 DecoderOnlyTransformer_forward(TrainedModel(notebook).num_tokens,
                                                TrainedModel(notebook).max_len, input_tokens))
    ELSE IF notebook = "Transformer"
    THEN Strict1(LAMBDA f : [outputs |-> f.fc_layer_out, decoder_input |-> f.decoder_input],
                 Transformer_forward(TrainedModel(notebook).num_tokens,
                                     TrainedModel(notebook).max_len, input_tokens))
    ELSE Strict1(LAMBDA f : [outputs |-> f.fc_layer_out, decoder_input |-> <<>>],
                 EncoderOnlyTransformer_forward(TrainedModel(notebook).num_tokens,
                                                TrainedModel(notebook).max_len,
                                                TrainedModel(notebook).head, input_tokens))

\* trainer = L.Trainer(max_epochs=...)
max_epochs(notebook) == IF notebook = "EncoderOnlyTrans" THEN 100 ELSE 30

\* trainer.fit(model, train_dataloaders=dataloader) is entered, between the construction
\* of the model and the cells that use the trained model: the loop over the epochs and
\* the batches starts
Fit ==
    /\ pc = "start"
    /\ run \in FitRuns
    /\ trainer.status = "none"
    /\ trainer' = [status |-> "training_step",
                   max_epochs |-> max_epochs(NotebookOf(run)),
                   current_epoch |-> 0,
                   batch_idx |-> 0,
                   global_step |-> 0]
    /\ UNCHANGED <<run, pc, max_len, i, forward, printed, generated, fed, iterations,
                   attention_call, constructed, rerun, parameters, training, call,
                   computed>>
    /\ UNCHANGED decoderOnlyVars
    /\ UNCHANGED generateVars

\* the Trainer calls training_step(batch, batch_idx) on the next batch (the DataLoader has
\* batches of one): outputs = self.forward(input_tokens[0]), loss = self.loss(outputs,
\* labels[0]); an exception ends the fit
TrainingStep ==
    /\ pc = "start"
    /\ trainer.status = "training_step"
    /\ \E notebook \in {NotebookOf(run)} :
       \E batch_idx \in {trainer.batch_idx + 1} :
       \E input_tokens \in {Dataset(notebook).inputs[batch_idx]} :
       \E labels \in {Dataset(notebook).labels[batch_idx]} :
       \E f \in {TrainingForward(notebook, input_tokens)} :
       \E loss \in {CrossEntropyLoss(f.outputs, labels)} :
            /\ training' = [notebook |-> notebook,
                            batch_idx |-> batch_idx - 1,
                            global_step |-> trainer.global_step,
                            input_tokens |-> input_tokens,
                            labels |-> labels,
                            decoder_input |-> f.decoder_input,
                            outputs |-> f.outputs,
                            loss |-> loss]
            /\ trainer' = [trainer EXCEPT
                                !.status = IF loss.ok THEN "optimizer_step" ELSE "failed"]
            /\ pc' = IF loss.ok THEN pc ELSE "error"
    /\ UNCHANGED <<run, max_len, i, forward, printed, generated, fed, iterations,
                   attention_call, constructed, rerun, parameters, call, computed>>
    /\ UNCHANGED decoderOnlyVars
    /\ UNCHANGED generateVars

\* the Trainer, after training_step returned the loss: backward and optimizer.step() write
\* every parameter the optimizer holds, which gives them other values; then the next
\* batch, the next epoch after the last batch, and the end of the fit after max_epochs
\* epochs
OptimizerStep ==
    /\ pc = "start"
    /\ trainer.status = "optimizer_step"
    /\ parameters' =
            [n \in ParameterNames |->
                IF n \in Trainable \cap ModelParameters(NotebookOf(run))
                THEN parameters[n] + 1
                ELSE parameters[n]]
    /\ \E last_batch \in {trainer.batch_idx + 1 = Len(Dataset(NotebookOf(run)).inputs)} :
       \E epoch \in {IF last_batch THEN trainer.current_epoch + 1
                                    ELSE trainer.current_epoch} :
            trainer' = [trainer EXCEPT
                            !.global_step = @ + 1,
                            !.batch_idx = IF last_batch THEN 0 ELSE @ + 1,
                            !.current_epoch = epoch,
                            !.status = IF epoch >= trainer.max_epochs THEN "finished"
                                       ELSE "training_step"]
    /\ UNCHANGED <<run, pc, max_len, i, forward, printed, generated, fed, iterations,
                   attention_call, constructed, rerun, training, call, computed>>
    /\ UNCHANGED decoderOnlyVars
    /\ UNCHANGED generateVars

(* ------------------------------------------------------------------ *)
(* A call of forward on its own                                         *)
(* ------------------------------------------------------------------ *)

\* longest token sequence handed to a call of forward on its own
MaxCallLen == 3

\* the ids such a sequence is made of: <SOS>, another token, <EOS>, and the two ids next
\* to the vocabulary, -1 and num_tokens
CallIds == {-1, SOS, 1, EOS, NumTokens}

CallSequences == UNION {[1 .. n -> CallIds] : n \in 1 .. MaxCallLen}

\* the modules whose forward is called
CallModels == {"DecoderOnlyTransformer", "Encoder", "Transformer"}

\* model(token_ids): the local variables of forward, and what it returns
CallForward(model, token_ids) ==
    CASE model = "DecoderOnlyTransformer" ->
            Strict1(LAMBDA f : [locals |-> f, out |-> f.fc_layer_out],
                    DecoderOnlyTransformer_forward(NumTokens, max_len, token_ids))
      [] model = "Encoder" ->
            Strict1(LAMBDA out : [locals |-> [token_ids |-> token_ids], out |-> out],
                    Encoder_forward(NumTokens, max_len, token_ids))
      [] model = "Transformer" ->
            Strict1(LAMBDA f : [locals |-> f, out |-> f.fc_layer_out],
                    Transformer_forward(NumTokens, max_len, token_ids))

\* a call of forward of one of the modules on a token sequence
ForwardCall ==
    /\ pc = "start"
    /\ run = "forward"
    /\ \E model \in CallModels, token_ids \in CallSequences :
       \E f \in {CallForward(model, token_ids)} :
            /\ call' = [model |-> model,
                        token_ids |-> token_ids,
                        locals |-> f.locals,
                        out |-> f.out,
                        rows |-> IF model = "DecoderOnlyTransformer" /\ f.out.ok
                                 THEN DecoderOnlyTransformer_rows(max_len, token_ids)
                                 ELSE <<>>]
            /\ pc' = IF f.out.ok THEN "done" ELSE "error"
    /\ parameters' = AfterInference(parameters)
    /\ UNCHANGED <<run, max_len, i, forward, printed, generated, fed, iterations,
                   attention_call, constructed, rerun, training, trainer, computed>>
    /\ UNCHANGED decoderOnlyVars
    /\ UNCHANGED generateVars

(* ------------------------------------------------------------------ *)
(* Specification                                                        *)
(* ------------------------------------------------------------------ *)

Next ==
    \/ DecPrompt
    \/ DecIterate
    \/ DecPrint
    \/ GenStart
    \/ GenIterate
    \/ GenPrint
    \/ AttentionCall
    \/ EncClassify
    \/ Construct
    \/ Rerun
    \/ Fit
    \/ TrainingStep
    \/ OptimizerStep
    \/ ForwardCall

Spec == Init /\ [][Next]_vars

\* the steps of the generation cells and of generate, with the training and the second
\* execution that go with them
GenerationNext ==
    \/ Fit
    \/ TrainingStep
    \/ OptimizerStep
    \/ DecPrompt
    \/ DecIterate
    \/ DecPrint
    \/ GenStart
    \/ GenIterate
    \/ GenPrint
    \/ Rerun

\* every generation cell and every call of generate runs to its end: nothing suspends a
\* step of a loop that can be taken
FairSpec == Spec /\ WF_vars(GenerationNext)

(* ------------------------------------------------------------------ *)
(* Properties                                                           *)
(* ------------------------------------------------------------------ *)

GenerationRun == run \in DecoderOnlyRuns \cup {"generate"}

\* a forward pass of the run has succeeded, so that forward holds its local variables
Decoded == GenerationRun /\ Len(fed) >= 1

\* <EOS> occurs in xs at most as its last element
EOSOnlyLast(xs) == \A k \in 1 .. (Len(xs) - 1) : xs[k] # EOS

\* C1: decoder-only generation from a prompt of P <= max_len tokens: the P prompt tokens
\* plus the tokens collected in predicted_ids never number more than max_len.
C1_TotalTokensWithinMaxLen ==
    (run \in DecoderOnlyRuns /\ input_length <= max_len)
        => input_length + Len(predicted_ids) <= max_len

\* C2: Transformer.generate: target_token_ids, its leading <SOS> counted, never holds
\* more than max_len tokens, in any state of the loop and when it is printed.
C2_TargetWithinMaxLen ==
    run = "generate" => (Len(target_token_ids) <= max_len /\ Len(printed) <= max_len)

\* generate ran all its iterations without predicting <EOS> and printed max_len tokens
C2_Witness ==
    /\ run = "generate"
    /\ pc = "done"
    /\ max_len >= 3
    /\ Len(printed) = max_len
    /\ \A k \in 1 .. Len(printed) : printed[k] # EOS

\* every element of a sequence of ids is an index of the vocabulary
AllInVocabulary(ids) == \A k \in 1 .. Len(ids) : ids[k] \in Tokens

\* the iterations a generation loop may enter
IterationBound ==
    /\ run = "generate" => iterations <= max_len - 1
    /\ (run \in DecoderOnlyRuns /\ input_length <= max_len)
            => iterations <= max_len - input_length

\* a forward pass fails only before the loop, on an input longer than the positional table
\* (or, in generate, on a source with an id outside the vocabulary)
ErrorOnlyOnLongInput ==
    (GenerationRun /\ pc = "error")
        => /\ \/ input_length > max_len
              \/ Len(src_token_ids) > max_len
              \/ ~AllInVocabulary(src_token_ids)
           /\ Len(fed) = 0

\* C3: every generation run whose first forward pass succeeds reaches "done", whatever
\* is predicted, within max_len-1 iterations (generate) or max_len-P (decoder-only);
\* a run stops in an error only before its loop, on an input longer than max_len.
C3_GenerationTerminates ==
    /\ [](IterationBound /\ ErrorOnlyOnLongInput)
    /\ GenerationRun => <>(pc \in {"done", "error"})

\* a decoder-only loop ran all its max_len - P >= 2 iterations and never predicted <EOS>
C3_Witness ==
    /\ run \in DecoderOnlyRuns
    /\ pc = "done"
    /\ input_length <= max_len
    /\ iterations = max_len - input_length
    /\ iterations >= 2
    /\ \A k \in 1 .. Len(generated) : generated[k] # EOS

\* C4: once <EOS> is predicted no forward pass runs and no token is predicted any more;
\* in the sequence generate builds and prints, and in the one the trained decoder-only
\* cells collect and print, <EOS> occurs only as the last element.
C4_StopsAtEOS ==
    GenerationRun =>
        /\ EOSOnlyLast(generated)
        /\ Len(fed) = Len(generated)
        /\ run = "generate" => (EOSOnlyLast(target_token_ids) /\ EOSOnlyLast(printed))
        /\ run \in {"trained_1", "trained_2"}
                => (EOSOnlyLast(predicted_ids) /\ EOSOnlyLast(printed))

\* generate predicted <EOS> after two other tokens and printed it last
C4_Witness ==
    /\ run = "generate"
    /\ pc = "done"
    /\ Len(printed) = 4
    /\ printed[4] = EOS
    /\ Len(generated) = 3
    /\ iterations < max_len - 1

\* C5: in every generation loop the k-th token printed is the k-th token generated
\* (generate prints <SOS> first, then the generated tokens).
C5_PrintedInGenerationOrder ==
    /\ (run \in DecoderOnlyRuns /\ pc = "done") => printed = generated
    /\ (run = "generate" /\ pc = "done")
            => /\ Len(printed) - 1 <= Len(generated)
               /\ \A k \in 2 .. Len(printed) : printed[k] = generated[k - 1]

\* where a run starts its running sequence: the prompt, or <SOS>
RunStart == IF run = "generate" THEN <<SOS>> ELSE SubSeq(model_input, 1, input_length)

\* the logits of the last forward pass
LastLogits == IF run = "generate" THEN fc_layer_out ELSE predictions

\* C6: every generated token is the argmax of the logits at the last position of a
\* forward pass over the prompt (or <SOS>) followed by all earlier generated tokens, in
\* order, none skipped and none duplicated.
C6_GreedyStep ==
    Decoded =>
        /\ Len(fed) = Len(generated)
        /\ \A k \in 1 .. Len(fed) : fed[k] = RunStart \o SubSeq(generated, 1, k - 1)
        /\ forward.token_ids = fed[Len(fed)]
        /\ generated[Len(generated)] = Argmax(LastLogits[Len(LastLogits)])
        /\ run \in DecoderOnlyRuns
                => /\ Len(predictions) = Len(fed[Len(fed)])
                   /\ forward.fc_layer_out.rows = Len(predictions)
                   /\ predicted_id = <<generated[Len(generated)]>>
        /\ run = "generate"
                => /\ Len(fc_layer_out) = 1
                   /\ fc_input.rows = 1
                   /\ fc_input = IF Len(fed) = 1
                                  THEN forward.residual_connection_values
                                  ELSE LastRow(forward.residual_connection_values)
                   /\ prediction_id = <<generated[Len(generated)]>>

\* a trained decoder-only run generated three tokens, the first two different
C6_Witness ==
    /\ run = "trained_1"
    /\ Len(generated) >= 3
    /\ generated[1] # generated[2]
    /\ Len(predictions) >= 3
    /\ predictions[1] # predictions[Len(predictions)]

\* softmax(q . k^T / sqrt(d_model)) . v
PlainAttention(head, q_in, k_in, v_in) ==
    Matmul(Softmax(DivSqrt(Matmul(Linear(head \o ".W_q", d_model, d_model, q_in),
                                  Transpose(Linear(head \o ".W_k", d_model, d_model, k_in))),
                           d_model)),
           Linear(head \o ".W_v", d_model, d_model, v_in))

\* C7: in every notebook, Attention.forward with mask=None suppresses nothing and
\* returns softmax(q.k^T / sqrt(d_model)).v.
C7_AbsentMaskIsOptional ==
    (run = "attention" /\ pc = "done" /\ ~attention_call.mask.present)
        => /\ attention_call.result.ok
           /\ attention_call.result =
                PlainAttention("attention", attention_call.q, attention_call.k, attention_call.v)

\* C8: the causal mask a decoder builds for a sequence of L >= 1 tokens is L x L and
\* mask[i][j] is True iff j > i: the diagonal and everything below it are False.
C8_CausalMask ==
    Decoded =>
        LET L == Len(forward.token_ids)
            m == forward.mask.m
        IN  /\ L >= 1
            /\ forward.mask.present
            /\ Len(m) = L
            /\ \A r \in 1 .. L : Len(m[r]) = L
            /\ \A r \in 0 .. (L - 1) : \A c \in 0 .. (L - 1) : m[r + 1][c + 1] = (c > r)

\* the decoder of generate built the mask of a sequence of four tokens
C8_Witness ==
    /\ run = "generate"
    /\ Len(fed) >= 1
    /\ Len(forward.token_ids) = 4
    /\ forward.mask.m[2] = <<FALSE, FALSE, TRUE, TRUE>>

\* C9: in Decoder.forward the encoder-decoder attention gets as query the residual output
\* of the self-attention (position_encoded + self_attention_values), as keys and values
\* the encoder output, and no mask.
C9_CrossAttentionQuery ==
    (run = "generate" /\ Len(fed) >= 1)
        => /\ forward.encoder_decoder_query =
                Add(forward.position_encoded, forward.self_attention_values)
           /\ forward.encoder_decoder_keys = contextualised_embeddings
           /\ forward.encoder_decoder_values = contextualised_embeddings
           /\ ~forward.encoder_decoder_mask.present

\* C10: Decoder.forward returns cross_attention_output + (position_encoded +
\* self_attention_output): the second residual adds onto the first one.
C10_ResidualsCompound ==
    (run = "generate" /\ Len(fed) >= 1)
        => /\ forward.residual_connection_values.ok
           /\ forward.residual_connection_values =
                Add(forward.encoder_decoder_attention_values,
                    Add(forward.position_encoded, forward.self_attention_values))
           /\ forward.residual_connection_values #
                Add(forward.encoder_decoder_attention_values, forward.position_encoded)

\* the decoder of generate ran on <SOS> and two generated tokens
C10_Witness ==
    /\ run = "generate"
    /\ pc = "loop"
    /\ Len(fed) >= 1
    /\ Len(forward.token_ids) = 3
    /\ forward.residual_connection_values.rows = 3

\* C11: no mask outside the decoder's self-attention.  Encoder.forward, the encoder-decoder
\* attention of Decoder.forward and EncoderOnlyTransformer.forward pass mask=None, and what
\* they compute is softmax(q.k^T / sqrt(d_model)).v with nothing filled in: every query
\* position attends to every key position, <PAD> positions included.
C11_NoMaskOutsideDecoderSelfAttention ==
    /\ (run = "generate" /\ pc # "start")
            => LET pe == PositionEncoding_forward(max_len,
                            Embedding("encoder.we", NumTokens, src_token_ids))
               IN  contextualised_embeddings =
                        Add(pe, PlainAttention("encoder.attention", pe, pe, pe))
    /\ (run = "generate" /\ Len(fed) >= 1)
            => /\ ~forward.encoder_decoder_mask.present
               /\ forward.encoder_decoder_attention_values =
                        PlainAttention("decoder.encoder_decoder_attention",
                                       forward.encoder_decoder_query,
                                       forward.encoder_decoder_keys,
                                       forward.encoder_decoder_values)
    /\ (run = "encoder_only" /\ pc # "start")
            => /\ ~forward.mask.present
               /\ \A h \in 1 .. forward.multi_head.head :
                        forward.multi_head.attention_values[h] =
                            PlainAttention(HeadName(h), forward.position_encoded,
                                           forward.position_encoded, forward.position_encoded)

\* generate encoded a source of two tokens and its decoder, run on three tokens, attended
\* from its three positions to the two encoder positions
C11_Witness ==
    /\ run = "generate"
    /\ Len(fed) >= 3
    /\ Len(src_token_ids) = 2
    /\ contextualised_embeddings.ok
    /\ contextualised_embeddings.rows = 2
    /\ forward.encoder_decoder_attention_values.ok
    /\ forward.encoder_decoder_attention_values.rows = 3

\* C12: in every attention call that returns, masked or not, the softmax weights of every
\* query position (of every row of the result, when a larger mask has broadcast the
\* scores) are non-negative and sum to 1 over the keys: num[j] >= 0, den > 0 and the
\* num[j] add up to den; and every cross-attention of Transformer.forward has a key to
\* weigh.
C12_PercentsAreConvexWeights ==
    /\ (run = "attention" /\ pc = "done" /\ attention_call.result.ok)
            => /\ Len(attention_call.attention_percents) = attention_call.result.rows
               /\ Len(attention_call.attention_percents) >= attention_call.q.rows
               /\ \A r \in 1 .. Len(attention_call.attention_percents) :
                    LET w == attention_call.attention_percents[r]
                    IN  /\ Len(w.num) = attention_call.k.rows
                        /\ \A j \in 1 .. Len(w.num) : w.num[j] >= 0
                        /\ w.den > 0
                        /\ SumSeq(w.num) = w.den
    /\ (run = "forward" /\ pc = "done" /\ call.model = "Transformer")
            => call.locals.contextualised_embeddings.rows >= 1

\* the position-encoded embeddings of the last forward pass of a run, and its input
PassRuns == DecoderOnlyRuns \cup {"generate", "encoder_only"}

\* the forward pass of the run was entered, so that forward holds its local variables
PassEntered ==
    /\ run \in PassRuns
    /\ pc # "start"
    /\ run = "generate" => Len(fed) >= 1

\* C13: whatever max_len >= 1 is, PositionEncoding.forward on a sequence longer than
\* max_len fails with a shape error and returns nothing: in the decoder-only and
\* encoder-only forward passes, and in the encoder of generate.
C13_LongSequenceFails ==
    /\ (PassEntered /\ run # "generate" /\ Len(forward.token_ids) > max_len)
            => (~forward.position_encoded.ok /\ forward.position_encoded.err = "RuntimeError")
    /\ (run = "generate" /\ pc # "start" /\ Len(src_token_ids) > max_len)
            => (~contextualised_embeddings.ok /\ contextualised_embeddings.err = "RuntimeError")

\* C14: constructing PositionEncoding with an odd d_model ends in an error and yields no
\* table.
C14_OddDModelRejected ==
    (run = "construct" /\ pc # "start" /\ constructed.d_model % 2 = 1)
        => (pc = "error" /\ ~constructed.pe.ok)

\* C15: PositionEncoding.forward on L <= max_len embeddings returns L rows, row p being
\* row p of the embeddings (the embedding of token_ids[p]) plus row p of the table,
\* for 0 <= p < L.
C15_PositionEncodingAddsTableRows ==
    (PassEntered /\ Len(forward.token_ids) <= max_len)
        => LET L == Len(forward.token_ids)
               x == forward.position_encoded
           IN  /\ x.ok
               /\ x.rows = L
               /\ x.cols = d_model
               /\ x.term.op = "add"
               /\ x.term.args[1].op = "embedding"
               /\ x.term.args[1].ints = forward.token_ids
               /\ x.term.args[2].op = "pe"
               /\ x.term.args[2].ints = [p \in 1 .. L |-> p - 1]

\* a decoder-only pass on three tokens in a model of a longer table
C15_Witness ==
    /\ run \in DecoderOnlyRuns
    /\ pc # "start"
    /\ Len(forward.token_ids) = 3
    /\ max_len > 3
    /\ forward.position_encoded.rows = 3

\* C17: whenever several tokens share the largest logit at the last position, the token
\* generated is the one of lowest id: no token of lower id has a logit as large.
C17_TiesGoToLowestId ==
    Decoded =>
        LET row == LastLogits[Len(LastLogits)]
            t == generated[Len(generated)]
        IN  /\ \A u \in Tokens : row[u + 1] <= row[t + 1]
            /\ \A u \in 0 .. (t - 1) : row[u + 1] < row[t + 1]

\* the last two tokens of the vocabulary tied for the largest logit, and the first of the
\* two was generated
C17_Witness ==
    /\ Decoded
    /\ LastLogits[Len(LastLogits)][NumTokens] = 1
    /\ LastLogits[Len(LastLogits)][NumTokens - 1] = 1
    /\ LastLogits[Len(LastLogits)][1] = 0
    /\ generated[Len(generated)] = NumTokens - 2

\* C18: a generation run in which a forward pass fails stops there: it has printed
\* nothing and it prints nothing afterwards.
C18_FailedRunEmitsNothing ==
    /\ []((GenerationRun /\ pc = "error") => printed = <<>>)
    /\ [][(GenerationRun /\ pc = "error") => (pc' = "error" /\ printed' = printed)]_vars

\* generate stopped in the IndexError of the encoder's embedding, on a source sentence
\* that fits the positional table and ends in an id outside the vocabulary
C18_Witness ==
    /\ run = "generate"
    /\ pc = "error"
    /\ Len(src_token_ids) = 2
    /\ max_len >= 2
    /\ src_token_ids[2] \notin Tokens
    /\ contextualised_embeddings.err = "IndexError"
    /\ encoder_calls = <<src_token_ids>>
    /\ printed = <<>>

\* C19: MultiHeadAttention of h heads: h heads with parameters of their own, each called
\* on the same (q, k, v, mask) and returning [L, d_model]; the outputs side by side in
\* head order, [L, h * d_model]; one linear layer from h * d_model to d_model.
C19_MultiHeadAttention ==
    (run = "encoder_only" /\ pc # "start" /\ forward.position_encoded.ok)
        => LET m == forward.multi_head
               x == forward.position_encoded
               L == Len(forward.token_ids)
           IN  /\ Len(m.attention_values) = m.head
               /\ \A h \in 1 .. m.head :
                    /\ m.attention_values[h] =
                            Attention_forward_EncoderOnly(
                                "multi_head_attention.attention_heads." \o ToString(h - 1),
                                x, x, x, forward.mask)
                    /\ m.attention_values[h].ok
                    /\ m.attention_values[h].rows = L
                    /\ m.attention_values[h].cols = d_model
                    /\ \A g \in 1 .. (h - 1) : m.attention_values[g] # m.attention_values[h]
               /\ m.agg_attention_values.ok
               /\ m.agg_attention_values.rows = L
               /\ m.agg_attention_values.cols = m.head * d_model
               /\ m.agg_attention_values.term.op = "cat"
               /\ m.agg_attention_values.term.args =
                        [h \in 1 .. m.head |-> m.attention_values[h].term]
               /\ m.fc_layer_out.ok
               /\ m.fc_layer_out.rows = L
               /\ m.fc_layer_out.cols = d_model
               /\ m.fc_layer_out.term =
                        Tm("linear", "multi_head_attention.fc", <<m.agg_attention_values.term>>, <<>>)
               /\ forward.self_attention_values = m.fc_layer_out

\* a model of two heads classified a sentence of at least two tokens
C19_Witness ==
    /\ run = "encoder_only"
    /\ pc = "done"
    /\ forward.multi_head.head = 2
    /\ Len(forward.token_ids) >= 2
    /\ forward.multi_head.agg_attention_values.cols = 2 * d_model

\* the encoder of generate ran once, on the source, and every decoder step got its output
EncoderContextFixed ==
    (run = "generate" /\ pc # "start")
        => /\ encoder_calls = <<src_token_ids>>
           /\ contextualised_embeddings = Encoder_forward(NumTokens, max_len, src_token_ids)
           /\ Len(fed) >= 1
                => /\ forward.encoder_decoder_keys = contextualised_embeddings
                   /\ forward.encoder_decoder_values = contextualised_embeddings

\* C20: generate invokes the encoder exactly once, on the source tokens only; every
\* decoder step gets that same output as keys and as values; nothing changes it later.
C20_EncoderContextFixed ==
    /\ []EncoderContextFixed
    /\ [][(run = "generate" /\ pc # "start" /\ pc' # "start")
                => UNCHANGED <<src_token_ids, contextualised_embeddings, encoder_calls>>]_vars

\* generate decoded three times against the encoding of a source of two tokens
C20_Witness ==
    /\ run = "generate"
    /\ Len(fed) = 3
    /\ Len(src_token_ids) = 2
    /\ encoder_calls = <<src_token_ids>>
    /\ forward.encoder_decoder_keys.ok
    /\ forward.encoder_decoder_keys.rows = 2

C21_NoPassBeyondMaxLen ==
    /\ (run \in DecoderOnlyRuns /\ input_length <= max_len)
            => /\ Len(model_input) <= max_len
               /\ \A k \in 1 .. Len(fed) : Len(fed[k]) <= max_len
               /\ pc # "error"
    /\ run = "generate"
            => /\ \A k \in 1 .. Len(fed) : Len(fed[k]) <= max_len
               /\ Len(fed) >= 1 => Len(forward.token_ids) <= max_len
               /\ Len(fed) >= 1 => pc # "error"

\* the decoder-only loop reached a forward pass over exactly max_len tokens
C21_Witness ==
    /\ run \in DecoderOnlyRuns
    /\ 1 < input_length
    /\ input_length < max_len
    /\ Len(fed) >= 2
    /\ Len(fed[Len(fed)]) = max_len
    /\ Len(model_input) = max_len

\* the query rows of the call whose mask hides every key but the one at their own position
OwnKeyOnly ==
    {r \in 1 .. Len(attention_call.attention_percents) :
        /\ r <= attention_call.k.rows
        /\ \A c \in 1 .. attention_call.k.rows :
                LET m == attention_call.mask.m
                IN  m[IF Len(m) = 1 THEN 1 ELSE r][IF Len(m[1]) = 1 THEN 1 ELSE c] = (c # r)}

\* C22: a query row whose mask suppresses every key except its own attends only to
\* itself: its weight on its own key is 1, on every other key 0, and its output is its
\* own value vector; under the causal mask that is position 0, whose output is v[0].
C22_OwnKeyOnlyYieldsOwnValue ==
    (run = "attention" /\ pc = "done" /\ attention_call.result.ok /\ attention_call.mask.present)
        => /\ \A r \in OwnKeyOnly :
                LET w == attention_call.attention_percents[r]
                    out == attention_call.attention_scores[r]
                IN  /\ w.den > 0
                    /\ w.num[r] = w.den
                    /\ \A j \in 1 .. Len(w.num) : j # r => w.num[j] = 0
                    /\ \A c \in 1 .. d_model :
                            out.num[c] = out.den * attention_call.values[r][c]
           /\ (/\ attention_call.mask = CausalMask(attention_call.q.rows)
               /\ attention_call.k.rows = attention_call.q.rows) => 1 \in OwnKeyOnly

\* a call under the causal mask on three positions whose scores grow along the keys:
\* position 0 returns v[0] although the later keys score higher
C22_Witness ==
    /\ run = "attention"
    /\ pc = "done"
    /\ attention_call.result.ok
    /\ attention_call.mask = CausalMask(3)
    /\ attention_call.scaled_sims[1][3] > attention_call.scaled_sims[1][1]
    /\ OwnKeyOnly = {1}
    /\ attention_call.attention_scores[1].num[1]
            = attention_call.attention_scores[1].den * attention_call.values[1][1]
    /\ attention_call.values[1] # attention_call.values[2]

\* the optimizer steps of a whole trainer.fit: one per batch and epoch
OptimizerSteps(notebook) == max_epochs(notebook) * Len(Dataset(notebook).inputs)

\* a step of a forward pass or of a generation call: every step but those of trainer.fit,
\* which runs between the cells
InferenceStep == pc # "start" \/ pc' # "start"

\* C23: a forward pass or a generation call leaves the positional table, the embedding
\* matrix, the query/key/value projections and the output head as they were: only the
\* optimizer steps of trainer.fit, outside of any pass, write them, and a trained model
\* decodes or classifies with the values the last optimizer step left all the way through.
C23_InferenceLeavesParameters ==
    /\ [][InferenceStep => UNCHANGED <<parameters, max_len, trainer>>]_vars
    /\ [](pc # "start" =>
            /\ run \in TrainedRuns => Fitted
            /\ \A n \in ParameterNames :
                    parameters[n] =
                        IF Fitted /\ n \in Trainable \cap ModelParameters(NotebookOf(run))
                        THEN OptimizerSteps(NotebookOf(run))
                        ELSE 0)

\* generate, called on the trained model, decoded three times and printed
C23_Witness ==
    /\ run = "generate"
    /\ pc = "done"
    /\ Len(fed) >= 3
    /\ Len(printed) >= 3
    /\ Fitted
    /\ parameters["pe"] = 0
    /\ parameters["we"] = 60
    /\ training.global_step = 59

\* C24: teacher forcing is aligned in both generative notebooks: for every training
\* example forward yields one logits row per label, the label at decoder position i is
\* the decoder-side input token at position i+1, and the last label is <EOS>; the
\* decoder-only model runs on 5 tokens against 5 labels, the encoder-decoder model on the
\* 3 tokens from <SOS> on against 3 labels.
C24_TeacherForcingAligned ==
    (training # <<>> /\ training.notebook \in GenerativeNotebooks)
        => /\ training.outputs.ok
           /\ training.outputs.rows = Len(training.labels)
           /\ training.loss.ok
           /\ Len(training.decoder_input) = Len(training.labels)
           /\ Len(training.labels) = IF training.notebook = "DecoderOnlyTrans" THEN 5 ELSE 3
           /\ \A p \in 1 .. (Len(training.labels) - 1) :
                    training.labels[p] = training.decoder_input[p + 1]
           /\ training.labels[Len(training.labels)] = LabelEOS(training.notebook)
           /\ training.notebook = "Transformer" => training.decoder_input[1] = SOS

\* the training step on the second example of Transformer.ipynb: love you <EOS> <SOS> te amo
C24_Witness ==
    /\ run = "generate"
    /\ trainer.status = "optimizer_step"
    /\ training.notebook = "Transformer"
    /\ training.batch_idx = 1
    /\ training.decoder_input = <<0, 3, 4>>
    /\ training.labels = <<3, 4, 5>>
    /\ training.outputs.rows = 3

\* the lookup of the module that looks the tokens of the call up first
FirstLookup ==
    IF call.model = "DecoderOnlyTransformer"
    THEN Embedding("we", NumTokens, call.token_ids)
    ELSE Embedding("encoder.we", NumTokens, call.token_ids)

\* C25: a forward pass over a sequence that holds a token id outside [0, num_tokens)
\* aborts with the IndexError of the embedding lookup and produces no logits, in
\* DecoderOnlyTransformer.forward and in Encoder.forward; Transformer.forward on such a
\* sequence produces no logits either.
C25_UnknownTokenAborts ==
    (/\ run = "forward"
     /\ pc # "start"
     /\ \E p \in 1 .. Len(call.token_ids) : call.token_ids[p] \notin Tokens)
        => /\ pc = "error"
           /\ ~call.out.ok
           /\ call.rows = <<>>
           /\ call.model \in {"DecoderOnlyTransformer", "Encoder"}
                => /\ call.out.err = "IndexError"
                   /\ call.out = FirstLookup
           /\ call.model = "DecoderOnlyTransformer"
                => call.locals.position_encoded.err = "IndexError"
           /\ (/\ call.model = "Transformer"
               /\ Len(call.locals.where) = 1
               /\ Len(call.locals.encoder_input) <= max_len)
                => call.out.err = "IndexError"

\* the decoder-only model called on two known tokens followed by the id num_tokens
C25_Witness ==
    /\ run = "forward"
    /\ pc = "error"
    /\ call.model = "DecoderOnlyTransformer"
    /\ call.token_ids = <<SOS, 1, NumTokens>>
    /\ Len(call.token_ids) <= max_len
    /\ call.out.err = "IndexError"

\* a decoder-only forward pass on its own that returned logits
DecoderOnlyCall == run = "forward" /\ pc = "done" /\ call.model = "DecoderOnlyTransformer"

\* C26: causality of the decoder-only forward pass: the logits at position i are computed
\* from the tokens 0..i only.  They are those of the forward pass over the first i+1 tokens
\* alone (so two inputs that agree on the positions 0..i have the same logits at i), and
\* appending a token leaves the logits of every earlier position as they were.
C26_Causality ==
    DecoderOnlyCall =>
        /\ Len(call.rows) = Len(call.token_ids)
        /\ Len(call.rows) = call.out.rows
        /\ \A p \in 1 .. Len(call.token_ids) :
                call.rows[p] =
                    DecoderOnlyTransformer_rows(max_len, SubSeq(call.token_ids, 1, p))[p]
        /\ \A id \in Tokens :
                (Len(call.token_ids) < max_len \/ max_len = 1)
                    => \A p \in 1 .. Len(call.token_ids) :
                           DecoderOnlyTransformer_rows(max_len, call.token_ids \o <<id>>)[p]
                                = call.rows[p]

\* a call on three tokens: the logits at position 0 are those of the first token alone,
\* while the logits at the last position do change with the last token
C26_Witness ==
    /\ DecoderOnlyCall
    /\ call.token_ids = <<1, SOS, EOS>>
    /\ max_len >= 3
    /\ call.rows[1] = DecoderOnlyTransformer_rows(max_len, <<1>>)[1]
    /\ call.rows[1] = DecoderOnlyTransformer_rows(max_len, <<1, EOS, SOS>>)[1]
    /\ call.rows[3] # DecoderOnlyTransformer_rows(max_len, <<1, SOS, SOS>>)[3]
    /\ call.rows[3] # DecoderOnlyTransformer_rows(max_len, <<SOS, SOS, EOS>>)[3]

\* C27: every generated token id lies in [0, num_tokens): in every state of both generation
\* loops the prediction, the running sequence and what is printed hold ids of the
\* vocabulary only, and no forward pass of a loop fails in the embedding lookup.
C27_GeneratedIdsInVocabulary ==
    GenerationRun =>
        /\ AllInVocabulary(generated)
        /\ AllInVocabulary(predicted_id)
        /\ AllInVocabulary(predicted_ids)
        /\ AllInVocabulary(prediction_id)
        /\ AllInVocabulary(model_input)
        /\ AllInVocabulary(target_token_ids)
        /\ AllInVocabulary(printed)
        /\ \A k \in 1 .. Len(fed) : AllInVocabulary(fed[k])
        /\ Len(LastLogits) >= 1 => Len(LastLogits[Len(LastLogits)]) = NumTokens
        /\ (pc = "error" /\ run \in DecoderOnlyRuns) => forward.fc_layer_out.err # "IndexError"

\* generate predicted the last id of the vocabulary after two other tokens, and printed
C27_Witness ==
    /\ run = "generate"
    /\ pc = "done"
    /\ Len(generated) >= 3
    /\ generated[Len(generated)] = NumTokens - 1
    /\ printed[Len(printed)] = NumTokens - 1
    /\ Len(printed) >= 4

\* generate has printed, and <EOS> was never appended to the target sequence
FinishedWithoutEOS ==
    /\ run = "generate"
    /\ pc = "done"
    /\ \A k \in 1 .. Len(printed) : printed[k] # EOS

\* C28: generate when <EOS> is never predicted: unless it fails before it has decoded
\* anything, the call comes to its end; the loop has then run all max_len-1 iterations, the emitted sequence has
\* exactly max_len tokens, begins with <SOS> and does not end with <EOS>: it is <SOS>
\* followed by all predictions but the one of the final iteration, which was computed
\* (it is the value of prediction_id) and is not emitted.
C28_RunsOutWithoutEOS ==
    /\ [](FinishedWithoutEOS =>
            /\ iterations = max_len - 1
            /\ Len(printed) = max_len
            /\ printed[1] = SOS
            /\ printed[Len(printed)] # EOS
            /\ Len(generated) = max_len
            /\ Len(fed) = max_len
            /\ printed = <<SOS>> \o SubSeq(generated, 1, max_len - 1)
            /\ prediction_id = <<generated[max_len]>>)
    /\ run = "generate" => <>(pc = "done" \/ (pc = "error" /\ Len(fed) = 0))

\* generate ran out of iterations; the prediction of the final iteration, here <EOS>,
\* is not part of what was printed
C28_Witness ==
    /\ FinishedWithoutEOS
    /\ max_len >= 3
    /\ iterations = max_len - 1
    /\ Len(printed) = max_len
    /\ generated[Len(generated)] = EOS
    /\ prediction_id = <<EOS>>

\* a call of Transformer.forward on its own that has ended
TransformerCall == run = "forward" /\ pc # "start" /\ call.model = "Transformer"

\* the positions of the input of the call that hold the id of <SOS>, counted from 1
SOSPositions == {p \in 1 .. Len(call.token_ids) : call.token_ids[p] = SOS}

\* C29: Transformer.forward splits its input at the index of the id of <SOS>: the encoder
\* gets the tokens strictly before it, the decoder the tokens from it onward, and the
\* logits have one row per decoder token.  With no <SOS> in the input or with several,
\* forward ends in an error and returns no logits.
C29_SplitAtSOS ==
    TransformerCall =>
        /\ Cardinality(SOSPositions) # 1
            => /\ pc = "error"
               /\ ~call.out.ok
               /\ call.out.err = "RuntimeError"
               /\ ~call.locals.contextualised_embeddings.ok
        /\ Cardinality(SOSPositions) = 1
            => LET at == CHOOSE p \in SOSPositions : TRUE
               IN  /\ call.locals.where = <<at - 1>>
                   /\ call.locals.encoder_input = SubSeq(call.token_ids, 1, at - 1)
                   /\ call.locals.decoder_input =
                            SubSeq(call.token_ids, at, Len(call.token_ids))
                   /\ call.locals.decoder_input[1] = SOS
                   /\ \A p \in 1 .. Len(call.locals.encoder_input) :
                            call.locals.encoder_input[p] # SOS
                   /\ call.locals.contextualised_embeddings =
                            Encoder_forward(NumTokens, max_len, call.locals.encoder_input)
                   /\ call.out.ok =>
                            /\ call.out.rows = Len(call.locals.decoder_input)
                            /\ call.out.cols = NumTokens
        /\ call.out.ok => Cardinality(SOSPositions) = 1

\* forward returned two rows of logits for [1, <SOS>, <EOS>]: one token for the encoder,
\* <SOS> and <EOS> for the decoder
C29_Witness ==
    /\ TransformerCall
    /\ pc = "done"
    /\ call.token_ids = <<1, SOS, EOS>>
    /\ call.locals.encoder_input = <<1>>
    /\ call.locals.decoder_input = <<SOS, EOS>>
    /\ call.out.rows = 2

\* C30: EncoderOnlyTransformer.forward returns its 2 class logits only for a sequence of
\* exactly max_len tokens; for a shorter one the flattened residual has L * d_model
\* features instead of max_len * d_model and the classification head fails with a shape
\* error, so that nothing is predicted.
C30_ClassifiesOnlyFullLength ==
    (run = "encoder_only" /\ pc # "start")
        => /\ forward.fc_layer_out.ok <=> input_length = max_len
           /\ forward.fc_layer_out.ok
                => /\ pc = "done"
                   /\ forward.fc_layer_out.rows = 1
                   /\ forward.fc_layer_out.cols = NumClasses
                   /\ forward.cls_input.cols = max_len * d_model
                   /\ Len(predictions[1]) = NumClasses
           /\ input_length < max_len
                => /\ pc = "error"
                   /\ forward.residual_connection_values.ok
                   /\ forward.residual_connection_values.rows = input_length
                   /\ forward.cls_input.ok
                   /\ forward.cls_input.cols = input_length * d_model
                   /\ forward.cls_input.cols # max_len * d_model
                   /\ forward.fc_layer_out.err = "RuntimeError"
                   /\ predictions = <<>>
                   /\ printed = <<>>

\* a model of two heads called on a sentence one token short of max_len
C30_Witness ==
    /\ run = "encoder_only"
    /\ pc = "error"
    /\ max_len >= 3
    /\ input_length = max_len - 1
    /\ forward.multi_head.head = 2
    /\ forward.cls_input.ok
    /\ forward.cls_input.cols = (max_len - 1) * d_model

====
